---- MODULE Spec2Model ----
(***************************************************************************)
(* Model of the audio core of the application: the SoundManager singleton  *)
(* (handle map, currentlyPlaying, availability flag) over the native       *)
(* expo-av sound handles, and the AudioInit module (memoized               *)
(* initialization of the native audio session), the useAudio hook the      *)
(* sounds screen plays through, and the environmental sampling services.   *)
(*                                                                         *)
(* JavaScript is single threaded: an async function runs without           *)
(* interruption from one await to the next.  Every action below is one     *)
(* such run: either the call of an operation up to its first await, or     *)
(* the continuation that runs when the awaited native call settles.  A     *)
(* native call that settles either succeeds (ok = TRUE) and has its        *)
(* effect on the native handle, or throws (ok = FALSE) and has none.       *)
(***************************************************************************)
EXTENDS Integers, Sequences, FiniteSets, TLC

\* ------------------------------------------------------------------ bounds
\* Number of native handles createAsync may hand out in one behaviour.
MaxHandles == 2

\* Sound ids used by the callers, and the callers (screens) themselves.
SoundIds == {"wn1", "nt1"}
Callers == {"s1", "s2"}

\* Calls each screen makes when the two screens race.
MaxRaceCalls == 2

\* _initializeAudio() runs one behaviour may start, and the components that
\* call initializeAudio().
MaxAttempts == 3
NumInitCallers == 3
InitCallers == 1..NumInitCallers

\* Facade operations the sounds screen calls while it is on display.
MaxFacadeCalls == 5

\* collectAndSendData() runs and start() calls of one behaviour of a
\* sampling service, and the components that call start().
MaxCollections == 2
MaxStarts == 2
StartCallers == {"c1", "c2"}

\* AuthService.login() calls of one behaviour.
MaxLogins == 3

\* Runs of AuthRequired's effect while one screen is on display.
MaxChecks == 2

\* startService() calls a component makes through useEnvironmentalData, and
\* changes of the hook's autoStart argument.
MaxServiceStarts == 3
MaxAutoStartChanges == 2

Null == "null"
NoHandle == 0

VARIABLES
    moduleOk,          \* ExpoAV && ExpoAV.Audio is truthy in this build
    isAvailable,       \* SoundManager.isAvailable
    sounds,            \* SoundManager.sounds: ordered map, Seq of [id, h]
    currentlyPlaying,  \* SoundManager.currentlyPlaying: id or Null
    native,            \* native sound handles created so far (Seq of status records)
    pc,                \* per caller: where its pending operation is suspended
    op,                \* per caller: operation of its current / last call
    arg,               \* per caller: soundId of its current / last call
    loopArg,           \* per caller: loop argument of playSound
    snd,               \* per caller: local `sound` of the outer operation
    inner,             \* per caller: local `sound` of the nested stop/unload
    innerId,           \* per caller: soundId passed to the nested stop/unload
    it,                \* per caller: entries consumed by unloadAll's key iterator
    ret,               \* per caller: value its last call resolved to
    changed,           \* per caller: a step of its current / last call changed
                       \*   the playing id, the handle map or what plays natively
    prevPlayed,        \* per caller: id of the call before, if that was a playSound
    raced,             \* per caller: its current / last call overlapped another call
    calls,             \* per racing caller: calls started, up to MaxRaceCalls
    ended,             \* id that was the playing id when it played to its end,
                       \*   until the next call is made
    replay             \* the current / last call is the first call after that
                       \*   end and is a playSound of the id that ended

VARIABLES
    platformOS,            \* Platform.OS
    isAudioInitialized,    \* AudioInit: the readiness flag
    initializationPromise, \* AudioInit: the memoized attempt, 0 = null
    attempts,              \* the _initializeAudio() runs started so far
    probeCalls,            \* getPermissionsAsync calls made so far
    configCalls,           \* setAudioModeAsync calls made so far
    readySets,             \* times isAudioInitialized was assigned true
    cpc,                   \* per init caller: idle, awaiting or resolved
    joined,                \* per init caller: the attempt whose promise it awaits
    got,                   \* per init caller: what its last call resolved to
    sawInFlight            \* per init caller: attempt pending when it last called

VARIABLES
    screen,            \* the sounds screen: "none", "mounted" or "unmounted"
    playingId,         \* useAudio: state playingId
    hookAudioReady,    \* useAudio: state isAudioReady
    setup,             \* useAudio: setupAudio() of the current effect run
    fpc,               \* useAudio: where the pending facade operation is suspended
    farg,              \* useAudio: soundId of the pending facade operation
    fsource,           \* useAudio: its source is not null (loadSound)
    floop,             \* useAudio: its loop argument (playSound)
    fret,              \* useAudio: value the last facade operation resolved to
    fcalls,            \* useAudio: facade operations called so far
    sawToggle          \* useAudio: the manager's playSound took its toggle branch

VARIABLES
    service,           \* which singleton: "fallback" or "native"
    userId,            \* the service's userId, 0 = null
    timer,             \* the service's timer: an interval id, 0 = null
    isRunning,         \* the service's isRunning
    timers,            \* interval timers that are set and not cleared
    timerSeq,          \* interval ids handed out by setInterval so far
    spc,               \* per start() caller: where its call is suspended
    sret,              \* per start() caller: value its last call resolved to
    starts,            \* start() calls made so far
    collections,       \* the collectAndSendData() runs, in call order
    stopped            \* stop() has returned and start() was not called since

VARIABLES
    authTokens,        \* AsyncStorage 'auth_tokens': 0 = no entry, else the
                       \*   id of the user the stored tokens belong to
    storedUserId,      \* AsyncStorage 'user_id': 0 = no entry
    loggedOut          \* per start() caller: no tokens were stored when it
                       \*   last called start(), and none were stored since

authVars == <<authTokens, storedUserId, loggedOut>>

\* AuthService.login() calls.
VARIABLES
    loginPc,           \* where login() is suspended, or how it settled
    loginFrom,         \* authTokens when login() was last called
    logins             \* login() calls so far

loginVars == <<loginPc, loginFrom, logins>>

\* A component that uses useEnvironmentalData, and the two services as the
\* hook sees them.
VARIABLES
    envScreen,         \* "none", "mounted" or "unmounted"
    autoStart,         \* the hook's argument at the last render
    envIsRunning,      \* the hook's isRunning state
    useFallback,       \* the hook's useFallback state
    cleanupIsRunning,  \* isRunning as the effect's cleanup closure holds it
    envPc,             \* where startService() is suspended
    envStarts,         \* startService() calls made so far
    envChanges,        \* changes of autoStart so far
    serviceRunning,    \* per service: its interval is set (isRunning)
    serviceUserId      \* per service: its userId field is set

envVars == <<envScreen, autoStart, envIsRunning, useFallback, cleanupIsRunning,
             envPc, envStarts, envChanges, serviceRunning, serviceUserId>>

\* A screen wrapped in AuthRequired.
VARIABLES
    arScreen,          \* "none", "mounted" or "unmounted"
    fallback,          \* the fallback prop was supplied
    isLoading,         \* AuthRequired's isLoading state
    isAuthenticated,   \* AuthRequired's isAuthenticated state
    arPc,              \* where checkAuthentication() is suspended
    arEnded,           \* how the last checkAuthentication() ended
    arChecks,          \* checkAuthentication() calls so far
    route              \* the route router.replace() last asked for

guardVars == <<arScreen, fallback, isLoading, isAuthenticated, arPc, arEnded,
               arChecks, route>>

uiVars == <<envVars, guardVars, loginVars>>

appVars == <<authVars, uiVars>>

esVars == <<service, userId, timer, isRunning, timers, timerSeq, spc, sret,
            starts, collections, stopped, appVars>>

faVars == <<screen, playingId, hookAudioReady, setup, fpc, farg, fsource, floop,
            fret, fcalls, sawToggle>>

aiVars == <<platformOS, isAudioInitialized, initializationPromise, attempts,
            probeCalls, configCalls, readySets, cpc, joined, got, sawInFlight>>

smVars == <<moduleOk, isAvailable, sounds, currentlyPlaying, native, pc, op, arg,
            loopArg, snd, inner, innerId, it, ret, changed, prevPlayed, raced, calls,
            ended, replay>>

\* ------------------------------------------------ the handle map (JS Map)
Has(m, id) == \E i \in 1..Len(m) : m[i].id = id

IndexOf(m, id) == CHOOSE i \in 1..Len(m) : m[i].id = id

Get(m, id) == IF Has(m, id) THEN m[IndexOf(m, id)].h ELSE NoHandle

\* Map.set keeps the position of an existing key and appends a new one.
Set(m, id, h) ==
    IF Has(m, id)
    THEN [i \in 1..Len(m) |-> IF m[i].id = id THEN [id |-> id, h |-> h] ELSE m[i]]
    ELSE Append(m, [id |-> id, h |-> h])

Delete(m, id) ==
    IF Has(m, id)
    THEN LET k == IndexOf(m, id)
         IN  [i \in 1..(Len(m) - 1) |-> IF i < k THEN m[i] ELSE m[i + 1]]
    ELSE m

\* A live key iterator that has consumed itv entries: removing an entry it
\* has already passed moves it back by one.
IterAfterDelete(m, id, itv) ==
    [p \in Callers |->
        IF Has(m, id) /\ IndexOf(m, id) <= itv[p] THEN itv[p] - 1 ELSE itv[p]]

Keys(m) == {m[i].id : i \in 1..Len(m)}

Handles(m) == {m[i].h : i \in 1..Len(m)}

\* --------------------------------------------------- the native handles
\* positionMillis is abstracted to 0 (at the start) or 1 (past the start).
NewSound ==
    [isLoaded |-> TRUE, isPlaying |-> FALSE, positionMillis |-> 0,
     isLooping |-> FALSE]

\* The native handles that are audibly playing.
Playing == {h \in 1..Len(native) : native[h].isPlaying}

\* checkAvailability(): !!(ExpoAV && ExpoAV.Audio)
checkAvailability == moduleOk

Idle(p) == pc[p] = "idle"

\* Native effects of the expo-av Sound methods on handle h.
NativeStop(h) == [native EXCEPT ![h].isPlaying = FALSE, ![h].positionMillis = 0]

NativePause(h) == [native EXCEPT ![h].isPlaying = FALSE]

\* The status of an unloaded handle is {isLoaded: false} and nothing else.
NativeUnload(h) ==
    [native EXCEPT ![h] = [isLoaded |-> FALSE, isPlaying |-> FALSE,
                           positionMillis |-> 0, isLooping |-> FALSE]]

NativeSetPosition(h) == [native EXCEPT ![h].positionMillis = 0]

NativeSetIsLooping(h, lp) == [native EXCEPT ![h].isLooping = lp]

NativePlay(h) == [native EXCEPT ![h].isPlaying = TRUE]

\* Playback calls on an unloaded handle always throw; unloadAsync and
\* getStatusAsync do not need a loaded handle.
MaySucceed(h, ok) == ok => native[h].isLoaded

\* Overlap bookkeeping when caller p starts a call.
RacedAtCall(p) ==
    IF \E q \in Callers \ {p} : ~Idle(q)
    THEN [q \in Callers |-> IF q = p \/ ~Idle(q) THEN TRUE ELSE raced[q]]
    ELSE [raced EXCEPT ![p] = FALSE]

\* The part of the manager a caller can observe from outside.
Observable == <<currentlyPlaying, sounds, Playing>>

\* changed[p] after a step of caller p's call (first = the step starts it).
Track(p, first) ==
    changed' = [changed EXCEPT ![p] = (~first /\ @) \/ Observable' # Observable]

NoTrack(p) == changed' = [changed EXCEPT ![p] = FALSE]

\* Caller p starts operation o on id.  Who calls decides what happens to
\* the overlap bookkeeping and to the state of the useAudio hook.
Begin(p, o, id) ==
    /\ Idle(p)
    /\ op' = [op EXCEPT ![p] = o]
    /\ arg' = [arg EXCEPT ![p] = id]
    /\ prevPlayed' = [prevPlayed EXCEPT
          ![p] = IF o = "playSound" /\ op[p] = "playSound" THEN arg[p] ELSE Null]
    /\ replay' = (o = "playSound" /\ ended # Null /\ ended = id)
    /\ ended' = Null
    /\ UNCHANGED aiVars
    /\ UNCHANGED esVars

\* The call is made by a screen that awaits each of its calls.
Awaited == UNCHANGED <<raced, calls>> /\ UNCHANGED faVars

\* The call is made by one of two screens that do not wait for each other.
Overlapping(p) ==
    /\ calls[p] < MaxRaceCalls
    /\ raced' = RacedAtCall(p)
    /\ calls' = [calls EXCEPT ![p] = @ + 1]
    /\ UNCHANGED faVars

\* Caller p suspends at an await, with lp its loop argument.
SuspendWith(p, label, s, i, iid, lp) ==
    /\ pc' = [pc EXCEPT ![p] = label]
    /\ loopArg' = [loopArg EXCEPT ![p] = lp]
    /\ snd' = [snd EXCEPT ![p] = s]
    /\ inner' = [inner EXCEPT ![p] = i]
    /\ innerId' = [innerId EXCEPT ![p] = iid]
    /\ ret' = [ret EXCEPT ![p] = "pending"]

Suspend(p, label, s, i, iid) == SuspendWith(p, label, s, i, iid, loopArg[p])

\* The promise of caller p's operation resolves to r.
Resolve(p, r) ==
    /\ pc' = [pc EXCEPT ![p] = "idle"]
    /\ loopArg' = [loopArg EXCEPT ![p] = FALSE]
    /\ snd' = [snd EXCEPT ![p] = NoHandle]
    /\ inner' = [inner EXCEPT ![p] = NoHandle]
    /\ innerId' = [innerId EXCEPT ![p] = Null]
    /\ ret' = [ret EXCEPT ![p] = r]

\* A continuation of caller p's pending operation.
Continue(p, label) ==
    /\ pc[p] = label
    /\ UNCHANGED <<op, arg, prevPlayed, raced, calls, ended, replay>>
    /\ UNCHANGED aiVars
    /\ UNCHANGED faVars
    /\ UNCHANGED esVars

\* The catch blocks that re-probe the bridge.
Reprobe(ok) == isAvailable' = IF ok THEN isAvailable ELSE checkAvailability

\* stopSound after its awaited stopAsync settled: both the normal path and
\* the catch block clear the playing id when it is soundId.
StopSettled(ok, h, soundId) ==
    /\ native' = IF ok THEN NativeStop(h) ELSE native
    /\ Reprobe(ok)
    /\ currentlyPlaying' =
          IF currentlyPlaying = soundId THEN Null ELSE currentlyPlaying
    /\ UNCHANGED sounds

\* unloadSound after its awaited unloadAsync settled.
UnloadSettled(ok, h, soundId) ==
    /\ native' = IF ok THEN NativeUnload(h) ELSE native
    /\ Reprobe(ok)
    /\ sounds' = IF ok THEN Delete(sounds, soundId) ELSE sounds
    /\ currentlyPlaying' =
          IF ok /\ currentlyPlaying = soundId THEN Null ELSE currentlyPlaying

smInit ==
    /\ moduleOk \in BOOLEAN
    /\ isAvailable = checkAvailability
    /\ sounds = <<>>
    /\ currentlyPlaying = Null
    /\ native = <<>>
    /\ pc = [p \in Callers |-> "idle"]
    /\ op = [p \in Callers |-> "none"]
    /\ arg = [p \in Callers |-> Null]
    /\ loopArg = [p \in Callers |-> FALSE]
    /\ snd = [p \in Callers |-> NoHandle]
    /\ inner = [p \in Callers |-> NoHandle]
    /\ innerId = [p \in Callers |-> Null]
    /\ it = [p \in Callers |-> 0]
    /\ ret = [p \in Callers |-> "none"]
    /\ changed = [p \in Callers |-> FALSE]
    /\ prevPlayed = [p \in Callers |-> Null]
    /\ raced = [p \in Callers |-> FALSE]
    /\ calls = [p \in Callers |-> 0]
    /\ ended = Null
    /\ replay = FALSE

\* A sampling service after construction: no timer, no user id.
esInit ==
    /\ userId = 0
    /\ timer = 0
    /\ isRunning = FALSE
    /\ timers = {}
    /\ timerSeq = 0
    /\ spc = [c \in StartCallers |-> "idle"]
    /\ sret = [c \in StartCallers |-> "none"]
    /\ starts = 0
    /\ collections = <<>>
    /\ stopped = FALSE
    /\ loggedOut = [c \in StartCallers |-> FALSE]

Services == {"EnvironmentalDataService", "FallbackEnvironmentalService"}

\* No component uses useEnvironmentalData; neither service was started.
envInit ==
    /\ envScreen = "none"
    /\ autoStart = FALSE
    /\ envIsRunning = FALSE
    /\ useFallback = FALSE
    /\ cleanupIsRunning = FALSE
    /\ envPc = "idle"
    /\ envStarts = 0
    /\ envChanges = 0
    /\ serviceRunning = [s \in Services |-> FALSE]
    /\ serviceUserId = [s \in Services |-> FALSE]

\* No screen wrapped in AuthRequired is on display.
arInit ==
    /\ arScreen = "none"
    /\ fallback = FALSE
    /\ isLoading = TRUE
    /\ isAuthenticated = FALSE
    /\ arPc = "idle"
    /\ arEnded = "none"
    /\ arChecks = 0
    /\ route = "screen"

\* Nobody has logged in.
loginInit ==
    /\ storedUserId = 0
    /\ loginPc = "idle"
    /\ loginFrom = 0
    /\ logins = 0

\* The sounds screen is not on display: no component uses useAudio.
faInit ==
    /\ screen = "none"
    /\ playingId = Null
    /\ hookAudioReady = FALSE
    /\ setup = "none"
    /\ fpc = "idle"
    /\ farg = Null
    /\ fsource = FALSE
    /\ floop = FALSE
    /\ fret = "none"
    /\ fcalls = 0
    /\ sawToggle = FALSE

\* AudioInit before the first initializeAudio() call.
aiInit ==
    /\ isAudioInitialized = FALSE
    /\ initializationPromise = 0
    /\ attempts = <<>>
    /\ probeCalls = 0
    /\ configCalls = 0
    /\ readySets = 0
    /\ cpc = [c \in InitCallers |-> "idle"]
    /\ joined = [c \in InitCallers |-> 0]
    /\ got = [c \in InitCallers |-> "none"]
    /\ sawInFlight = [c \in InitCallers |-> 0]

\* ------------------------------------------------------------- loadSound
\* loadSound without the null-source check: a null source goes on to the
\* native load like any other.
loadSound_noSourceCheck(p, soundId, hasSource) ==
    /\ Begin(p, "loadSound", soundId)
    /\ UNCHANGED <<moduleOk, isAvailable, sounds, currentlyPlaying, native, it>>
    /\ IF ~isAvailable
       THEN Resolve(p, "false")
       ELSE IF Has(sounds, soundId)
            THEN Suspend(p, "loadSound_unloadAsync", NoHandle,
                         Get(sounds, soundId), soundId)
            ELSE Suspend(p, "loadSound_createAsync", NoHandle, NoHandle, Null)
    /\ NoTrack(p)

\* loadSound up to its first await.  hasSource = FALSE is a null source.
loadSound(p, soundId, hasSource) ==
    /\ Begin(p, "loadSound", soundId)
    /\ UNCHANGED <<moduleOk, isAvailable, sounds, currentlyPlaying, native, it>>
    /\ IF ~isAvailable \/ ~hasSource
       THEN Resolve(p, "false")
       ELSE IF Has(sounds, soundId)
            THEN Suspend(p, "loadSound_unloadAsync", NoHandle,
                         Get(sounds, soundId), soundId)
            ELSE Suspend(p, "loadSound_createAsync", NoHandle, NoHandle, Null)
    /\ NoTrack(p)

\* The nested unloadSound settles; loadSound goes on to createAsync.
loadSound_unloadAsync(p, ok) ==
    /\ Continue(p, "loadSound_unloadAsync")
    /\ UnloadSettled(ok, inner[p], innerId[p])
    /\ it' = IF ok THEN IterAfterDelete(sounds, innerId[p], it) ELSE it
    /\ Suspend(p, "loadSound_createAsync", NoHandle, NoHandle, Null)
    /\ UNCHANGED moduleOk
    /\ NoTrack(p)

\* createAsync settles: register the handle, or run the catch block.
\* Without ExpoAV.Audio the call ExpoAV.Audio.Sound.createAsync throws.
loadSound_createAsync(p, ok) ==
    /\ Continue(p, "loadSound_createAsync")
    /\ ok => moduleOk /\ Len(native) < MaxHandles
    /\ native' = IF ok THEN Append(native, NewSound) ELSE native
    /\ sounds' = IF ok THEN Set(sounds, arg[p], Len(native) + 1)
                       ELSE Delete(sounds, arg[p])
    /\ it' = IF ok THEN it ELSE IterAfterDelete(sounds, arg[p], it)
    /\ Reprobe(ok)
    /\ Resolve(p, IF ok THEN "true" ELSE "false")
    /\ UNCHANGED <<moduleOk, currentlyPlaying>>
    /\ NoTrack(p)

\* ------------------------------------------------------------- playSound
\* playSound up to its first await.
playSound(p, soundId, loop) ==
    /\ Begin(p, "playSound", soundId)
    /\ UNCHANGED <<moduleOk, isAvailable, sounds, currentlyPlaying, native, it>>
    /\ IF ~isAvailable
       THEN Resolve(p, "false")
       ELSE IF currentlyPlaying = soundId
            THEN \* toggle: stopSound(soundId), then return false
                 IF Has(sounds, soundId)
                 THEN SuspendWith(p, "playSound_toggle", NoHandle,
                                  Get(sounds, soundId), soundId, loop)
                 ELSE Resolve(p, "false")
            ELSE IF ~Has(sounds, soundId)
                 THEN Resolve(p, "false")
                 ELSE IF currentlyPlaying # Null /\ Has(sounds, currentlyPlaying)
                      THEN SuspendWith(p, "playSound_stopAsync",
                                       Get(sounds, soundId),
                                       Get(sounds, currentlyPlaying),
                                       currentlyPlaying, loop)
                      ELSE SuspendWith(p, "playSound_getStatusAsync",
                                       Get(sounds, soundId), NoHandle, Null, loop)
    /\ Track(p, TRUE)

\* The stopSound of the toggle settles; playSound returns false.
playSound_toggle(p, ok) ==
    /\ Continue(p, "playSound_toggle")
    /\ MaySucceed(inner[p], ok)
    /\ StopSettled(ok, inner[p], innerId[p])
    /\ Resolve(p, "false")
    /\ UNCHANGED <<moduleOk, it>>
    /\ Track(p, FALSE)

\* The stopSound of the other sound settles; playSound goes on.
playSound_stopAsync(p, ok) ==
    /\ Continue(p, "playSound_stopAsync")
    /\ MaySucceed(inner[p], ok)
    /\ StopSettled(ok, inner[p], innerId[p])
    /\ Suspend(p, "playSound_getStatusAsync", snd[p], NoHandle, Null)
    /\ UNCHANGED <<moduleOk, it>>
    /\ Track(p, FALSE)

\* getStatusAsync settles.
playSound_getStatusAsync(p, ok) ==
    /\ Continue(p, "playSound_getStatusAsync")
    /\ Reprobe(ok)
    /\ UNCHANGED <<moduleOk, sounds, currentlyPlaying, native, it>>
    /\ IF ok /\ native[snd[p]].isLoaded
       THEN IF native[snd[p]].positionMillis > 0
            THEN Suspend(p, "playSound_setPositionAsync", snd[p], NoHandle, Null)
            ELSE Suspend(p, "playSound_setIsLoopingAsync", snd[p], NoHandle, Null)
       ELSE Resolve(p, "false")
    /\ Track(p, FALSE)

\* setPositionAsync(0) settles.
playSound_setPositionAsync(p, ok) ==
    /\ Continue(p, "playSound_setPositionAsync")
    /\ MaySucceed(snd[p], ok)
    /\ native' = IF ok THEN NativeSetPosition(snd[p]) ELSE native
    /\ Reprobe(ok)
    /\ UNCHANGED <<moduleOk, sounds, currentlyPlaying, it>>
    /\ IF ok
       THEN Suspend(p, "playSound_setIsLoopingAsync", snd[p], NoHandle, Null)
       ELSE Resolve(p, "false")
    /\ Track(p, FALSE)

\* setIsLoopingAsync(loop) settles; a throw is caught by the inner catch.
playSound_setIsLoopingAsync(p, ok) ==
    /\ Continue(p, "playSound_setIsLoopingAsync")
    /\ MaySucceed(snd[p], ok)
    /\ native' = IF ok THEN NativeSetIsLooping(snd[p], loopArg[p]) ELSE native
    /\ UNCHANGED <<moduleOk, isAvailable, sounds, currentlyPlaying, it>>
    /\ IF ok
       THEN Suspend(p, "playSound_playAsync", snd[p], NoHandle, Null)
       ELSE Resolve(p, "false")
    /\ Track(p, FALSE)

\* playAsync settles; on success the sound becomes the playing one.
playSound_playAsync(p, ok) ==
    /\ Continue(p, "playSound_playAsync")
    /\ MaySucceed(snd[p], ok)
    /\ native' = IF ok THEN NativePlay(snd[p]) ELSE native
    /\ currentlyPlaying' = IF ok THEN arg[p] ELSE currentlyPlaying
    /\ Resolve(p, IF ok THEN "true" ELSE "false")
    /\ UNCHANGED <<moduleOk, isAvailable, sounds, it>>
    /\ Track(p, FALSE)

\* ------------------------------------------------- pauseSound, stopSound
\* pauseSound without the availability check at its entry.
pauseSound_noAvailabilityCheck(p, soundId) ==
    /\ Begin(p, "pauseSound", soundId)
    /\ UNCHANGED <<moduleOk, isAvailable, sounds, currentlyPlaying, native, it>>
    /\ IF Has(sounds, soundId)
       THEN Suspend(p, "pauseSound_pauseAsync", Get(sounds, soundId), NoHandle, Null)
       ELSE Resolve(p, "void")
    /\ NoTrack(p)

pauseSound(p, soundId) ==
    /\ Begin(p, "pauseSound", soundId)
    /\ UNCHANGED <<moduleOk, isAvailable, sounds, currentlyPlaying, native, it>>
    /\ IF isAvailable /\ Has(sounds, soundId)
       THEN Suspend(p, "pauseSound_pauseAsync", Get(sounds, soundId), NoHandle, Null)
       ELSE Resolve(p, "void")
    /\ NoTrack(p)

\* pauseSound after its awaited pauseAsync settled: the catch block does
\* not touch the playing id.
PauseSettled(ok, h, soundId) ==
    /\ native' = IF ok THEN NativePause(h) ELSE native
    /\ Reprobe(ok)
    /\ currentlyPlaying' =
          IF ok /\ currentlyPlaying = soundId THEN Null ELSE currentlyPlaying
    /\ UNCHANGED sounds

pauseSound_pauseAsync(p, ok) ==
    /\ Continue(p, "pauseSound_pauseAsync")
    /\ MaySucceed(snd[p], ok)
    /\ PauseSettled(ok, snd[p], arg[p])
    /\ Resolve(p, "void")
    /\ UNCHANGED <<moduleOk, it>>
    /\ NoTrack(p)

stopSound(p, soundId) ==
    /\ Begin(p, "stopSound", soundId)
    /\ UNCHANGED <<moduleOk, isAvailable, sounds, currentlyPlaying, native, it>>
    /\ IF isAvailable /\ Has(sounds, soundId)
       THEN Suspend(p, "stopSound_stopAsync", Get(sounds, soundId), NoHandle, Null)
       ELSE Resolve(p, "void")
    /\ NoTrack(p)

\* stopSound without its catch block: a throw of stopAsync rejects the
\* promise of stopSound.
stopSound_stopAsync_noCatch(p, ok) ==
    /\ Continue(p, "stopSound_stopAsync")
    /\ MaySucceed(snd[p], ok)
    /\ IF ok
       THEN StopSettled(ok, snd[p], arg[p])
       ELSE UNCHANGED <<native, isAvailable, currentlyPlaying, sounds>>
    /\ Resolve(p, IF ok THEN "void" ELSE "rejected")
    /\ UNCHANGED <<moduleOk, it>>
    /\ NoTrack(p)

stopSound_stopAsync(p, ok) ==
    /\ Continue(p, "stopSound_stopAsync")
    /\ MaySucceed(snd[p], ok)
    /\ StopSettled(ok, snd[p], arg[p])
    /\ Resolve(p, "void")
    /\ UNCHANGED <<moduleOk, it>>
    /\ NoTrack(p)

\* ------------------------------------------------ unloadSound, unloadAll
unloadSound(p, soundId) ==
    /\ Begin(p, "unloadSound", soundId)
    /\ UNCHANGED <<moduleOk, isAvailable, sounds, currentlyPlaying, native, it>>
    /\ IF isAvailable /\ Has(sounds, soundId)
       THEN Suspend(p, "unloadSound_unloadAsync", Get(sounds, soundId), NoHandle, Null)
       ELSE Resolve(p, "void")
    /\ NoTrack(p)

unloadSound_unloadAsync(p, ok) ==
    /\ Continue(p, "unloadSound_unloadAsync")
    /\ UnloadSettled(ok, snd[p], arg[p])
    /\ it' = IF ok THEN IterAfterDelete(sounds, arg[p], it) ELSE it
    /\ Resolve(p, "void")
    /\ UNCHANGED moduleOk
    /\ NoTrack(p)

\* One turn of `for (const soundId of this.sounds.keys())`: either the
\* nested unloadSound of the next key suspends (at its unloadAsync, or, when
\* it finds the bridge unavailable, at the await of its resolved promise),
\* or the loop is over and the playing id is cleared.
UnloadAllTurn(p) ==
    IF it[p] < Len(sounds)
    THEN /\ it' = [it EXCEPT ![p] = it[p] + 1]
         /\ IF isAvailable
            THEN Suspend(p, "unloadAll_unloadAsync", NoHandle,
                         sounds[it[p] + 1].h, sounds[it[p] + 1].id)
            ELSE Suspend(p, "unloadAll_next", NoHandle, NoHandle, Null)
         /\ UNCHANGED currentlyPlaying
    ELSE /\ it' = [it EXCEPT ![p] = 0]
         /\ currentlyPlaying' = Null
         /\ Resolve(p, "void")

unloadAll(p) ==
    /\ Begin(p, "unloadAll", Null)
    /\ UNCHANGED <<moduleOk, isAvailable, sounds, native>>
    /\ IF ~isAvailable
       THEN /\ Resolve(p, "void")
            /\ UNCHANGED <<currentlyPlaying, it>>
       ELSE UnloadAllTurn(p)
    /\ NoTrack(p)

\* The nested unloadSound settles and resolves.
unloadAll_unloadAsync(p, ok) ==
    /\ Continue(p, "unloadAll_unloadAsync")
    /\ UnloadSettled(ok, inner[p], innerId[p])
    /\ it' = IF ok THEN IterAfterDelete(sounds, innerId[p], it) ELSE it
    /\ Suspend(p, "unloadAll_next", NoHandle, NoHandle, Null)
    /\ UNCHANGED moduleOk
    /\ NoTrack(p)

\* unloadAll resumes after `await this.unloadSound(soundId)`.
unloadAll_next(p) ==
    /\ Continue(p, "unloadAll_next")
    /\ UnloadAllTurn(p)
    /\ UNCHANGED <<moduleOk, isAvailable, sounds, native>>
    /\ NoTrack(p)

\* ----------------------------------------------------- getPlaybackStatus
getPlaybackStatus(p, soundId) ==
    /\ Begin(p, "getPlaybackStatus", soundId)
    /\ UNCHANGED <<moduleOk, isAvailable, sounds, currentlyPlaying, native, it>>
    /\ IF isAvailable /\ Has(sounds, soundId)
       THEN Suspend(p, "getPlaybackStatus_getStatusAsync", Get(sounds, soundId),
                    NoHandle, Null)
       ELSE Resolve(p, "null")
    /\ NoTrack(p)

getPlaybackStatus_getStatusAsync(p, ok) ==
    /\ Continue(p, "getPlaybackStatus_getStatusAsync")
    /\ Reprobe(ok)
    /\ UNCHANGED <<moduleOk, sounds, currentlyPlaying, native, it>>
    /\ Resolve(p,
               IF ok /\ native[snd[p]].isLoaded
               THEN (IF native[snd[p]].isPlaying THEN "isPlaying" ELSE "notPlaying")
               ELSE "null")
    /\ NoTrack(p)

\* --------------------------------------------- native playback progress
\* A playing sound advances past its start.
PlaybackProgress(h) ==
    /\ native[h].isPlaying
    /\ native[h].positionMillis = 0
    /\ native' = [native EXCEPT ![h].positionMillis = 1]
    /\ UNCHANGED <<moduleOk, isAvailable, sounds, currentlyPlaying, pc, op, arg,
                   loopArg, snd, inner, innerId, it, ret, changed, prevPlayed,
                   raced, calls, ended, replay>>
    /\ UNCHANGED aiVars
    /\ UNCHANGED faVars
    /\ UNCHANGED esVars

\* The observer without its assignment: the playing id survives the end.
didJustFinish_keepsPlayingId(h) ==
    /\ native[h].isPlaying
    /\ native[h].positionMillis > 0
    /\ ~native[h].isLooping
    /\ native' = [native EXCEPT ![h].isPlaying = FALSE]
    /\ ended' = IF currentlyPlaying # Null /\ Get(sounds, currentlyPlaying) = h
                THEN currentlyPlaying
                ELSE ended
    /\ UNCHANGED <<moduleOk, isAvailable, sounds, currentlyPlaying, pc, op, arg,
                   loopArg, snd, inner, innerId, it, ret, changed, prevPlayed,
                   raced, calls, replay>>
    /\ UNCHANGED aiVars
    /\ UNCHANGED faVars
    /\ UNCHANGED esVars

\* A non-looping sound plays to its end: the observer attached by
\* loadSound receives didJustFinish and clears the playing id.
didJustFinish(h) ==
    /\ native[h].isPlaying
    /\ native[h].positionMillis > 0
    /\ ~native[h].isLooping
    /\ native' = [native EXCEPT ![h].isPlaying = FALSE]
    /\ currentlyPlaying' = Null
    /\ ended' = IF currentlyPlaying # Null /\ Get(sounds, currentlyPlaying) = h
                THEN currentlyPlaying
                ELSE ended
    /\ UNCHANGED <<moduleOk, isAvailable, sounds, pc, op, arg, loopArg, snd,
                   inner, innerId, it, ret, changed, prevPlayed, raced, calls,
                   replay>>
    /\ UNCHANGED aiVars
    /\ UNCHANGED faVars
    /\ UNCHANGED esVars

\* ------------------------------------------------------- specifications
\* A screen calls the manager directly (the useAudio hook is not involved)
\* and awaits each call.
Step(p) ==
    \/ \E id \in SoundIds, hasSource \in BOOLEAN :
          loadSound(p, id, hasSource) /\ Awaited
    \/ \E id \in SoundIds, loop \in BOOLEAN :
          playSound(p, id, loop) /\ Awaited
    \/ \E id \in SoundIds :
          pauseSound(p, id) /\ Awaited
    \/ \E id \in SoundIds :
          stopSound(p, id) /\ Awaited
    \/ \E id \in SoundIds :
          unloadSound(p, id) /\ Awaited
    \/ \E id \in SoundIds :
          getPlaybackStatus(p, id) /\ Awaited
    \/ unloadAll(p) /\ Awaited
    \/ \E ok \in BOOLEAN : loadSound_unloadAsync(p, ok)
    \/ \E ok \in BOOLEAN : loadSound_createAsync(p, ok)
    \/ \E ok \in BOOLEAN : playSound_toggle(p, ok)
    \/ \E ok \in BOOLEAN : playSound_stopAsync(p, ok)
    \/ \E ok \in BOOLEAN : playSound_getStatusAsync(p, ok)
    \/ \E ok \in BOOLEAN : playSound_setPositionAsync(p, ok)
    \/ \E ok \in BOOLEAN : playSound_setIsLoopingAsync(p, ok)
    \/ \E ok \in BOOLEAN : playSound_playAsync(p, ok)
    \/ \E ok \in BOOLEAN : pauseSound_pauseAsync(p, ok)
    \/ \E ok \in BOOLEAN : stopSound_stopAsync(p, ok)
    \/ \E ok \in BOOLEAN : unloadSound_unloadAsync(p, ok)
    \/ \E ok \in BOOLEAN : unloadAll_unloadAsync(p, ok)
    \/ unloadAll_next(p)
    \/ \E ok \in BOOLEAN : getPlaybackStatus_getStatusAsync(p, ok)

Environment ==
    \/ \E h \in 1..Len(native) : PlaybackProgress(h)
    \/ \E h \in 1..Len(native) : didJustFinish(h)

\* Every call is awaited before the next one is made.
Next == Step("s1") \/ Environment

vars == <<smVars, aiVars, faVars, esVars>>

\* The SoundManager never reads Platform.OS.
Init ==
    smInit /\ aiInit /\ faInit /\ esInit /\ envInit /\ arInit /\ loginInit /\ platformOS = "ios"
           /\ service = "fallback" /\ authTokens = 0

Spec == Init /\ [][Next]_vars

\* The native audio module goes away while the application runs: from now
\* on `ExpoAV && ExpoAV.Audio` is falsy.  The manager's flag follows only
\* when a catch block runs the probe again.
BridgeLost ==
    /\ moduleOk
    /\ moduleOk' = FALSE
    /\ UNCHANGED <<isAvailable, sounds, currentlyPlaying, native, pc, op, arg,
                   loopArg, snd, inner, innerId, it, ret, changed, prevPlayed,
                   raced, calls, ended, replay>>
    /\ UNCHANGED aiVars
    /\ UNCHANGED faVars
    /\ UNCHANGED esVars

\* The calls of a screen that plays every sound once through (loop = false).
BridgeStep(p) ==
    \/ \E id \in SoundIds, hasSource \in BOOLEAN :
          loadSound(p, id, hasSource) /\ Awaited
    \/ \E id \in SoundIds :
          playSound(p, id, FALSE) /\ Awaited
    \/ \E id \in SoundIds :
          pauseSound(p, id) /\ Awaited
    \/ \E id \in SoundIds :
          stopSound(p, id) /\ Awaited
    \/ \E id \in SoundIds :
          unloadSound(p, id) /\ Awaited
    \/ \E id \in SoundIds :
          getPlaybackStatus(p, id) /\ Awaited
    \/ unloadAll(p) /\ Awaited
    \/ \E ok \in BOOLEAN : loadSound_unloadAsync(p, ok)
    \/ \E ok \in BOOLEAN : loadSound_createAsync(p, ok)
    \/ \E ok \in BOOLEAN : playSound_toggle(p, ok)
    \/ \E ok \in BOOLEAN : playSound_stopAsync(p, ok)
    \/ \E ok \in BOOLEAN : playSound_getStatusAsync(p, ok)
    \/ \E ok \in BOOLEAN : playSound_setPositionAsync(p, ok)
    \/ \E ok \in BOOLEAN : playSound_setIsLoopingAsync(p, ok)
    \/ \E ok \in BOOLEAN : playSound_playAsync(p, ok)
    \/ \E ok \in BOOLEAN : pauseSound_pauseAsync(p, ok)
    \/ \E ok \in BOOLEAN : stopSound_stopAsync(p, ok)
    \/ \E ok \in BOOLEAN : unloadSound_unloadAsync(p, ok)
    \/ \E ok \in BOOLEAN : unloadAll_unloadAsync(p, ok)
    \/ unloadAll_next(p)
    \/ \E ok \in BOOLEAN : getPlaybackStatus_getStatusAsync(p, ok)

NextBridge == BridgeStep("s1") \/ Environment \/ BridgeLost

SpecBridge == Init /\ [][NextBridge]_vars

\* Two screens load and play without waiting for each other: their calls
\* interleave at every await.
RaceStep(p) ==
    \/ \E id \in SoundIds :
          loadSound(p, id, TRUE) /\ Overlapping(p)
    \/ \E id \in SoundIds, loop \in BOOLEAN :
          playSound(p, id, loop) /\ Overlapping(p)
    \/ \E ok \in BOOLEAN : loadSound_unloadAsync(p, ok)
    \/ \E ok \in BOOLEAN : loadSound_createAsync(p, ok)
    \/ \E ok \in BOOLEAN : playSound_toggle(p, ok)
    \/ \E ok \in BOOLEAN : playSound_stopAsync(p, ok)
    \/ \E ok \in BOOLEAN : playSound_getStatusAsync(p, ok)
    \/ \E ok \in BOOLEAN : playSound_setPositionAsync(p, ok)
    \/ \E ok \in BOOLEAN : playSound_setIsLoopingAsync(p, ok)
    \/ \E ok \in BOOLEAN : playSound_playAsync(p, ok)

NextRace == (\E p \in Callers : RaceStep(p)) \/ Environment

SpecRace == Init /\ [][NextRace]_vars

\* -------------------------------------------------------------- AudioInit
Pending(k) == attempts[k].result = "pending"

\* The attempt whose promise is still pending, 0 when there is none.
InFlight ==
    IF \E k \in 1..Len(attempts) : Pending(k)
    THEN CHOOSE k \in 1..Len(attempts) : Pending(k)
    ELSE 0

Settle(k, r) ==
    [attempts EXCEPT ![k].at = "done", ![k].result = r]

\* _initializeAudio() up to its first await: without the audio module it
\* returns false at once, otherwise it calls getPermissionsAsync.
StartAttempt ==
    IF moduleOk
    THEN [at |-> "getPermissionsAsync", result |-> "pending", probed |-> FALSE,
          configured |-> FALSE]
    ELSE [at |-> "done", result |-> "false", probed |-> FALSE,
          configured |-> FALSE]

\* initializeAudio() without the in-flight memo: every call made before the
\* flag is set starts its own attempt.
initializeAudio_noMemo(c) ==
    /\ cpc[c] # "awaiting"
    /\ sawInFlight' = [sawInFlight EXCEPT ![c] = InFlight]
    /\ IF isAudioInitialized
       THEN /\ cpc' = [cpc EXCEPT ![c] = "resolved"]
            /\ got' = [got EXCEPT ![c] = "true"]
            /\ joined' = [joined EXCEPT ![c] = 0]
            /\ UNCHANGED <<initializationPromise, attempts, probeCalls>>
       ELSE /\ Len(attempts) < MaxAttempts
            /\ attempts' = Append(attempts, StartAttempt)
            /\ probeCalls' = IF moduleOk THEN probeCalls + 1 ELSE probeCalls
            /\ initializationPromise' = Len(attempts) + 1
            /\ cpc' = [cpc EXCEPT ![c] = "awaiting"]
            /\ got' = [got EXCEPT ![c] = "none"]
            /\ joined' = [joined EXCEPT ![c] = Len(attempts) + 1]
    /\ UNCHANGED <<platformOS, isAudioInitialized, configCalls, readySets>>
    /\ UNCHANGED <<smVars, esVars>>
    /\ UNCHANGED faVars

\* initializeAudio(): true when ready, else the memoized promise, else a
\* new attempt that becomes the memoized promise.
initializeAudio(c) ==
    /\ cpc[c] # "awaiting"
    /\ sawInFlight' = [sawInFlight EXCEPT ![c] = InFlight]
    /\ IF isAudioInitialized
       THEN /\ cpc' = [cpc EXCEPT ![c] = "resolved"]
            /\ got' = [got EXCEPT ![c] = "true"]
            /\ joined' = [joined EXCEPT ![c] = 0]
            /\ UNCHANGED <<initializationPromise, attempts, probeCalls>>
       ELSE IF initializationPromise # 0
            THEN /\ cpc' = [cpc EXCEPT ![c] = "awaiting"]
                 /\ got' = [got EXCEPT ![c] = "none"]
                 /\ joined' = [joined EXCEPT ![c] = initializationPromise]
                 /\ UNCHANGED <<initializationPromise, attempts, probeCalls>>
            ELSE /\ Len(attempts) < MaxAttempts
                 /\ attempts' = Append(attempts, StartAttempt)
                 /\ probeCalls' = IF moduleOk THEN probeCalls + 1 ELSE probeCalls
                 /\ initializationPromise' = Len(attempts) + 1
                 /\ cpc' = [cpc EXCEPT ![c] = "awaiting"]
                 /\ got' = [got EXCEPT ![c] = "none"]
                 /\ joined' = [joined EXCEPT ![c] = Len(attempts) + 1]
    /\ UNCHANGED <<platformOS, isAudioInitialized, configCalls, readySets>>
    /\ UNCHANGED <<smVars, esVars>>
    /\ UNCHANGED faVars

\* getPermissionsAsync settles: a throw is caught by the inner catch, which
\* returns false.
getPermissionsAsync(k, ok) ==
    /\ attempts[k].at = "getPermissionsAsync"
    /\ attempts' =
         IF ok
         THEN [attempts EXCEPT ![k].probed = TRUE,
                               ![k].at = IF platformOS = "android"
                                         THEN "requestPermissionsAsync"
                                         ELSE "setTimeout"]
         ELSE Settle(k, "false")
    /\ UNCHANGED <<platformOS, isAudioInitialized, initializationPromise,
                   probeCalls, configCalls, readySets, cpc, joined, got,
                   sawInFlight>>
    /\ UNCHANGED <<smVars, esVars>>
    /\ UNCHANGED faVars

\* requestPermissionsAsync settles (Android): a throw is logged and ignored.
requestPermissionsAsync(k, ok) ==
    /\ attempts[k].at = "requestPermissionsAsync"
    /\ attempts' = [attempts EXCEPT ![k].at = "setTimeout"]
    /\ UNCHANGED <<platformOS, isAudioInitialized, initializationPromise,
                   probeCalls, configCalls, readySets, cpc, joined, got,
                   sawInFlight>>
    /\ UNCHANGED <<smVars, esVars>>
    /\ UNCHANGED faVars

\* The 100 ms delay is over: setAudioModeAsync is called.
setTimeout(k) ==
    /\ attempts[k].at = "setTimeout"
    /\ attempts' = [attempts EXCEPT ![k].at = "setAudioModeAsync"]
    /\ configCalls' = configCalls + 1
    /\ UNCHANGED <<platformOS, isAudioInitialized, initializationPromise,
                   probeCalls, readySets, cpc, joined, got, sawInFlight>>
    /\ UNCHANGED <<smVars, esVars>>
    /\ UNCHANGED faVars

\* setAudioModeAsync with the readiness flag assigned before the awaited
\* call has settled, so also when it throws.
setAudioModeAsync_flagBeforeAwait(k, ok) ==
    /\ attempts[k].at = "setAudioModeAsync"
    /\ attempts' = IF ok THEN [Settle(k, "true") EXCEPT ![k].configured = TRUE]
                         ELSE Settle(k, "false")
    /\ isAudioInitialized' = TRUE
    /\ readySets' = readySets + 1
    /\ initializationPromise' = IF ok THEN initializationPromise ELSE 0
    /\ UNCHANGED <<platformOS, probeCalls, configCalls, cpc, joined, got,
                   sawInFlight>>
    /\ UNCHANGED <<smVars, esVars>>
    /\ UNCHANGED faVars

\* setAudioModeAsync settles: success sets the readiness flag, a throw
\* reaches the outer catch, which clears the memo.
setAudioModeAsync(k, ok) ==
    /\ attempts[k].at = "setAudioModeAsync"
    /\ attempts' = IF ok THEN [Settle(k, "true") EXCEPT ![k].configured = TRUE]
                         ELSE Settle(k, "false")
    /\ isAudioInitialized' = IF ok THEN TRUE ELSE isAudioInitialized
    /\ readySets' = IF ok THEN readySets + 1 ELSE readySets
    /\ initializationPromise' = IF ok THEN initializationPromise ELSE 0
    /\ UNCHANGED <<platformOS, probeCalls, configCalls, cpc, joined, got,
                   sawInFlight>>
    /\ UNCHANGED <<smVars, esVars>>
    /\ UNCHANGED faVars

\* The promise a caller awaits has settled: its await resumes.
awaitInitialization(c) ==
    /\ cpc[c] = "awaiting"
    /\ ~Pending(joined[c])
    /\ cpc' = [cpc EXCEPT ![c] = "resolved"]
    /\ got' = [got EXCEPT ![c] = attempts[joined[c]].result]
    /\ UNCHANGED <<platformOS, isAudioInitialized, initializationPromise,
                   attempts, probeCalls, configCalls, readySets, joined,
                   sawInFlight>>
    /\ UNCHANGED <<smVars, esVars>>
    /\ UNCHANGED faVars

\* isAudioReady()
isAudioReady == isAudioInitialized

NextInit ==
    \/ \E c \in InitCallers : initializeAudio(c)
    \/ \E k \in 1..Len(attempts), ok \in BOOLEAN : getPermissionsAsync(k, ok)
    \/ \E k \in 1..Len(attempts), ok \in BOOLEAN : requestPermissionsAsync(k, ok)
    \/ \E k \in 1..Len(attempts) : setTimeout(k)
    \/ \E k \in 1..Len(attempts), ok \in BOOLEAN : setAudioModeAsync(k, ok)
    \/ \E c \in InitCallers : awaitInitialization(c)

InitAudio ==
    smInit /\ aiInit /\ faInit /\ esInit /\ envInit /\ arInit /\ loginInit /\ platformOS \in {"android", "ios"}
           /\ service = "fallback" /\ authTokens = 0

SpecInit == InitAudio /\ [][NextInit]_vars

\* ------------------------------------------------- useAudio (the facade)
\* The hook calls the manager as caller "s1" from its operations and as
\* caller "s2" from its effect cleanup, which does not await the call.  A
\* state update re-renders the component and re-runs the effect in the same
\* step.  `await initializeAudio()` resolves to the readiness flag.
HookCaller == "s1"
CleanupCaller == "s2"

\* const shouldLoop = soundItem.duration is the infinity sign (the white-noise sounds).
shouldLoop(id) == id = "wn1"

\* useAudio.isPlaying(soundId)
useAudio_isPlaying(id) == hookAudioReady /\ playingId = id

\* The effect cleanup: pauseSound of the playing id the effect closed over.
useAudio_cleanup ==
    IF playingId # Null
    THEN pauseSound(CleanupCaller, playingId) /\ UNCHANGED <<raced, calls>>
    ELSE UNCHANGED <<smVars, esVars>> /\ UNCHANGED aiVars

\* The effect body after a re-render: setupAudio() unless audio is ready.
useAudio_effect(ready) == setup' = IF ready THEN "none" ELSE "awaiting"

\* setPlayingId(v): a changed value re-renders, which runs the cleanup of
\* the old effect and the effect again; an unmounted component ignores it.
setPlayingId(v) ==
    IF screen = "mounted" /\ playingId # v
    THEN /\ playingId' = v
         /\ useAudio_cleanup
         /\ useAudio_effect(hookAudioReady)
    ELSE /\ UNCHANGED <<playingId, setup>>
         /\ UNCHANGED <<smVars, esVars>>
         /\ UNCHANGED aiVars

\* The mounted screen calls a facade operation and awaits it.
FacadeBegin ==
    /\ screen = "mounted"
    /\ fpc = "idle"
    /\ fcalls < MaxFacadeCalls
    /\ fcalls' = fcalls + 1

\* The facade operation suspends at an await, with its arguments.
FacadeSuspend(label, id, source, loop) ==
    /\ fpc' = label
    /\ farg' = id
    /\ fsource' = source
    /\ floop' = loop
    /\ fret' = "pending"

\* The promise of the facade operation resolves to r.
FacadeResolve(r) ==
    /\ fpc' = "idle"
    /\ farg' = Null
    /\ fsource' = FALSE
    /\ floop' = FALSE
    /\ fret' = r

\* The component mounts: useState(checkAudioReady()) and the first effect.
SoundsScreen_mount ==
    /\ screen = "none"
    /\ screen' = "mounted"
    /\ hookAudioReady' = isAudioReady
    /\ useAudio_effect(isAudioReady)
    /\ UNCHANGED <<playingId, fpc, farg, fsource, floop, fret, fcalls,
                   sawToggle>>
    /\ UNCHANGED <<smVars, esVars>>
    /\ UNCHANGED aiVars

\* The component unmounts: the screen's cleanup only clears its `mounted`
\* flag, the hook's cleanup pauses the sound it tracks.  Nothing unloads.
SoundsScreen_unmount ==
    /\ screen = "mounted"
    /\ screen' = "unmounted"
    /\ setup' = "none"
    /\ useAudio_cleanup
    /\ UNCHANGED <<playingId, hookAudioReady, fpc, farg, fsource, floop, fret,
                   fcalls, sawToggle>>

\* Some initializeAudio() attempt of the application completes its setup.
AudioInitialized ==
    /\ moduleOk
    /\ ~isAudioInitialized
    /\ isAudioInitialized' = TRUE
    /\ UNCHANGED <<platformOS, initializationPromise, attempts, probeCalls,
                   configCalls, readySets, cpc, joined, got, sawInFlight>>
    /\ UNCHANGED <<smVars, esVars>>
    /\ UNCHANGED faVars

\* setupAudio() resumes after `await initializeAudio()`.
setupAudio_initializeAudio ==
    /\ setup = "awaiting"
    /\ IF isAudioReady /\ ~hookAudioReady
       THEN /\ hookAudioReady' = TRUE
            /\ useAudio_cleanup
            /\ useAudio_effect(TRUE)
       ELSE /\ setup' = "none"
            /\ UNCHANGED hookAudioReady
            /\ UNCHANGED <<smVars, esVars>>
            /\ UNCHANGED aiVars
    /\ UNCHANGED <<screen, playingId, fpc, farg, fsource, floop, fret,
                   fcalls, sawToggle>>

\* useAudio.loadSound up to its first await.
useAudio_loadSound(id, source) ==
    /\ FacadeBegin
    /\ IF ~hookAudioReady
       THEN /\ FacadeSuspend("loadSound_initializeAudio", id, source, FALSE)
            /\ UNCHANGED <<smVars, esVars>>
            /\ UNCHANGED aiVars
       ELSE /\ loadSound(HookCaller, id, source)
            /\ UNCHANGED <<raced, calls>>
            /\ FacadeSuspend("loadSound_loadSound", id, source, FALSE)
    /\ UNCHANGED <<screen, playingId, hookAudioReady, setup, sawToggle>>

\* `await initializeAudio()` settles inside useAudio.loadSound.
useAudio_loadSound_initializeAudio ==
    /\ fpc = "loadSound_initializeAudio"
    /\ UNCHANGED fcalls
    /\ IF ~isAudioReady
       THEN /\ FacadeResolve("false")
            /\ UNCHANGED <<smVars, esVars>>
            /\ UNCHANGED aiVars
       ELSE /\ loadSound(HookCaller, farg, fsource)
            /\ UNCHANGED <<raced, calls>>
            /\ FacadeSuspend("loadSound_loadSound", farg, fsource, floop)
    /\ UNCHANGED <<screen, playingId, hookAudioReady, setup, sawToggle>>

\* soundManager.loadSound resolved: its result is dropped, the facade
\* returns true.
useAudio_loadSound_loadSound ==
    /\ fpc = "loadSound_loadSound"
    /\ UNCHANGED fcalls
    /\ Idle(HookCaller)
    /\ FacadeResolve("true")
    /\ UNCHANGED <<screen, playingId, hookAudioReady, setup, sawToggle>>
    /\ UNCHANGED <<smVars, esVars>>
    /\ UNCHANGED aiVars

\* The facade calls soundManager.playSound, which takes its toggle branch
\* when soundId is the manager's playing id.
useAudio_callPlaySound(id, loop) ==
    /\ playSound(HookCaller, id, loop)
    /\ UNCHANGED <<raced, calls>>
    /\ FacadeSuspend("playSound_playSound", id, FALSE, loop)
    /\ sawToggle' = (isAvailable /\ currentlyPlaying = id /\ Has(sounds, id))

\* useAudio.playSound once audio is ready: a sound the hook tracks as
\* playing is first asked for its status.
useAudio_playOrToggle(id, loop) ==
    IF playingId = id
    THEN /\ getPlaybackStatus(HookCaller, id)
         /\ UNCHANGED <<raced, calls>>
         /\ FacadeSuspend("playSound_getPlaybackStatus", id, FALSE, loop)
         /\ sawToggle' = FALSE
    ELSE useAudio_callPlaySound(id, loop)

\* useAudio.playSound up to its first await.
useAudio_playSound(id, loop) ==
    /\ FacadeBegin
    /\ IF ~hookAudioReady
       THEN /\ FacadeSuspend("playSound_initializeAudio", id, FALSE, loop)
            /\ sawToggle' = FALSE
            /\ UNCHANGED <<smVars, esVars>>
            /\ UNCHANGED aiVars
       ELSE useAudio_playOrToggle(id, loop)
    /\ UNCHANGED <<screen, playingId, hookAudioReady, setup>>

\* `await initializeAudio()` settles inside useAudio.playSound.
useAudio_playSound_initializeAudio ==
    /\ fpc = "playSound_initializeAudio"
    /\ UNCHANGED fcalls
    /\ IF ~isAudioReady
       THEN /\ FacadeResolve("false")
            /\ UNCHANGED sawToggle
            /\ UNCHANGED <<smVars, esVars>>
            /\ UNCHANGED aiVars
       ELSE useAudio_playOrToggle(farg, floop)
    /\ UNCHANGED <<screen, playingId, hookAudioReady, setup>>

\* soundManager.getPlaybackStatus resolved: pause a playing sound,
\* otherwise go on to soundManager.playSound.
useAudio_playSound_getPlaybackStatus ==
    /\ fpc = "playSound_getPlaybackStatus"
    /\ UNCHANGED fcalls
    /\ Idle(HookCaller)
    /\ IF ret[HookCaller] = "isPlaying"
       THEN /\ pauseSound(HookCaller, farg)
            /\ UNCHANGED <<raced, calls>>
            /\ FacadeSuspend("playSound_pauseSound", farg, fsource, floop)
            /\ UNCHANGED sawToggle
       ELSE useAudio_callPlaySound(farg, floop)
    /\ UNCHANGED <<screen, playingId, hookAudioReady, setup>>

\* soundManager.pauseSound resolved: setPlayingId(null), return false.
useAudio_playSound_pauseSound ==
    /\ fpc = "playSound_pauseSound"
    /\ UNCHANGED fcalls
    /\ Idle(HookCaller)
    /\ setPlayingId(Null)
    /\ FacadeResolve("false")
    /\ UNCHANGED <<screen, hookAudioReady, sawToggle>>

\* soundManager.playSound resolved: success sets the playing id, a false
\* result is logged as a failed playback and returned.
useAudio_playSound_playSound ==
    /\ fpc = "playSound_playSound"
    /\ UNCHANGED fcalls
    /\ Idle(HookCaller)
    /\ IF ret[HookCaller] = "true"
       THEN setPlayingId(farg)
       ELSE /\ UNCHANGED <<playingId, setup>>
            /\ UNCHANGED <<smVars, esVars>>
            /\ UNCHANGED aiVars
    /\ FacadeResolve(ret[HookCaller])
    /\ sawToggle' = FALSE
    /\ UNCHANGED <<screen, hookAudioReady>>

\* useAudio.stopSound up to its first await.
useAudio_stopSound(id) ==
    /\ FacadeBegin
    /\ IF ~hookAudioReady
       THEN /\ FacadeResolve("void")
            /\ UNCHANGED <<smVars, esVars>>
            /\ UNCHANGED aiVars
       ELSE /\ stopSound(HookCaller, id)
            /\ UNCHANGED <<raced, calls>>
            /\ FacadeSuspend("stopSound_stopSound", id, FALSE, FALSE)
    /\ UNCHANGED <<screen, playingId, hookAudioReady, setup, sawToggle>>

\* soundManager.stopSound resolved.
useAudio_stopSound_stopSound ==
    /\ fpc = "stopSound_stopSound"
    /\ UNCHANGED fcalls
    /\ Idle(HookCaller)
    /\ IF playingId = farg
       THEN setPlayingId(Null)
       ELSE /\ UNCHANGED <<playingId, setup>>
            /\ UNCHANGED <<smVars, esVars>>
            /\ UNCHANGED aiVars
    /\ FacadeResolve("void")
    /\ UNCHANGED <<screen, hookAudioReady, sawToggle>>

\* The manager's continuations of the calls the hook made.
FacadeManagerStep ==
    \/ \E ok \in BOOLEAN : loadSound_unloadAsync(HookCaller, ok)
    \/ \E ok \in BOOLEAN : loadSound_createAsync(HookCaller, ok)
    \/ \E ok \in BOOLEAN : playSound_toggle(HookCaller, ok)
    \/ \E ok \in BOOLEAN : playSound_stopAsync(HookCaller, ok)
    \/ \E ok \in BOOLEAN : playSound_getStatusAsync(HookCaller, ok)
    \/ \E ok \in BOOLEAN : playSound_setPositionAsync(HookCaller, ok)
    \/ \E ok \in BOOLEAN : playSound_setIsLoopingAsync(HookCaller, ok)
    \/ \E ok \in BOOLEAN : playSound_playAsync(HookCaller, ok)
    \/ \E ok \in BOOLEAN : pauseSound_pauseAsync(HookCaller, ok)
    \/ \E ok \in BOOLEAN : stopSound_stopAsync(HookCaller, ok)
    \/ \E ok \in BOOLEAN : getPlaybackStatus_getStatusAsync(HookCaller, ok)
    \/ \E ok \in BOOLEAN : pauseSound_pauseAsync(CleanupCaller, ok)

\* The sounds screen uses the hook: it loads the sounds that have a source
\* and awaits each facade call before the next.
NextFacade ==
    \/ SoundsScreen_mount
    \/ SoundsScreen_unmount
    \/ AudioInitialized
    \/ setupAudio_initializeAudio
    \/ \E id \in SoundIds : useAudio_loadSound(id, TRUE)
    \/ useAudio_loadSound_initializeAudio
    \/ useAudio_loadSound_loadSound
    \/ \E id \in SoundIds : useAudio_playSound(id, shouldLoop(id))
    \/ useAudio_playSound_initializeAudio
    \/ useAudio_playSound_getPlaybackStatus
    \/ useAudio_playSound_pauseSound
    \/ useAudio_playSound_playSound
    \/ \E id \in SoundIds : useAudio_stopSound(id)
    \/ useAudio_stopSound_stopSound
    \/ FacadeManagerStep
    \/ Environment

SpecFacade == Init /\ [][NextFacade]_vars

\* ------------------------------------- environmental sampling services
\* FallbackEnvironmentalService and EnvironmentalDataService have the same
\* timer, userId and isRunning fields and the same start / stop / collect
\* / send code; the native service awaits a permission request in start()
\* and its two sensor reads in collectAndSendData().
audioVars == <<smVars, aiVars, faVars>>

Native == service = "native"

\* A collectAndSendData() run: where it is suspended, what called it (start
\* or the interval), the fetchWithTimeout() of its request (the fetch, the
\* timeout timer, the abort signal, the promise), how the run ended, and
\* whether an earlier run had failed when it was called.
Collection(label, caller) ==
    [pc |-> label, by |-> caller, fetch |-> "none", timeout |-> "none",
     aborted |-> FALSE, promise |-> "none", result |-> "pending",
     sawFailed |-> \E i \in 1..Len(collections) :
                      collections[i].result = "failed"]

\* fetchWithTimeout(): the timeout is armed and fetch() is called.
fetchWithTimeout(c) ==
    [c EXCEPT !.pc = "send", !.fetch = "pending", !.timeout = "armed",
              !.promise = "pending"]

\* The run has ended; nothing propagates to the caller.
Finished(c, r) == [c EXCEPT !.pc = "done", !.result = r]

\* sendDataToBackend() up to its await: without a user id it returns.  It
\* reads the user id the step that calls it leaves in the field (start()
\* calls it right after getUserId() has set the field).
sendDataToBackend(c) ==
    IF userId' = 0 THEN Finished(c, "skipped") ELSE fetchWithTimeout(c)

\* collectAndSendData() up to its first await.
collectAndSendData(caller) ==
    IF Native
    THEN Collection("getTemperature", caller)
    ELSE sendDataToBackend(Collection("simulate", caller))

CollectionStep(i, label) ==
    /\ i \in 1..Len(collections)
    /\ collections[i].pc = label
    /\ UNCHANGED <<service, appVars, stopped, userId, timer, isRunning, timers,
                   timerSeq, spc, sret, starts>>
    /\ UNCHANGED audioVars

\* startPeriodicCollection(): one collection at once, then the interval.
startPeriodicCollection ==
    /\ Len(collections) < MaxCollections
    /\ isRunning' = TRUE
    /\ collections' = Append(collections, collectAndSendData("start"))
    /\ timerSeq' = timerSeq + 1
    /\ timer' = timerSeq + 1
    /\ timers' = timers \cup {timerSeq + 1}

\* start() without its isRunning test: every start sets an interval.
start_tail_noRunningCheck(c) ==
    /\ spc' = [spc EXCEPT ![c] = "idle"]
    /\ sret' = [sret EXCEPT ![c] = "true"]
    /\ startPeriodicCollection

\* start() after its awaits: start the collection unless it is running.
start_tail(c) ==
    /\ spc' = [spc EXCEPT ![c] = "idle"]
    /\ sret' = [sret EXCEPT ![c] = "true"]
    /\ IF ~isRunning
       THEN startPeriodicCollection
       ELSE UNCHANGED <<timer, isRunning, timers, timerSeq, collections>>

\* start() up to `await AuthService.getTokens()` inside getUserId().
start(c) ==
    /\ spc[c] = "idle"
    /\ starts < MaxStarts
    /\ starts' = starts + 1
    /\ spc' = [spc EXCEPT ![c] = "getUserId"]
    /\ sret' = [sret EXCEPT ![c] = "pending"]
    /\ stopped' = FALSE
    /\ loggedOut' = [loggedOut EXCEPT ![c] = (authTokens = 0)]
    /\ UNCHANGED uiVars
    /\ UNCHANGED <<service, authTokens, storedUserId, userId, timer, isRunning, timers,
                   timerSeq, collections>>
    /\ UNCHANGED audioVars

\* getTokens() settles: tokens whose payload names a user, tokens without
\* a usable id, no tokens, or an exception; getUserId() catches it.  A
\* lookup that finds no id leaves userId as it was.
start_getUserId(c, tokens) ==
    /\ spc[c] = "getUserId"
    /\ tokens = "none" => authTokens = 0
    /\ tokens \in {"user", "noId"} => authTokens # 0
    /\ userId' = IF tokens = "user" THEN 1 ELSE userId
    /\ IF userId' = 0
       THEN /\ spc' = [spc EXCEPT ![c] = "idle"]
            /\ sret' = [sret EXCEPT ![c] = "false"]
            /\ UNCHANGED <<timer, isRunning, timers, timerSeq, collections>>
       ELSE IF Native
            THEN /\ spc' = [spc EXCEPT ![c] = "requestPermissions"]
                 /\ UNCHANGED <<sret, timer, isRunning, timers, timerSeq,
                                collections>>
            ELSE start_tail(c)
    /\ UNCHANGED <<service, appVars, stopped, starts>>
    /\ UNCHANGED audioVars

\* requestPermissions() settles; denials and exceptions are only logged.
start_requestPermissions(c) ==
    /\ spc[c] = "requestPermissions"
    /\ start_tail(c)
    /\ UNCHANGED <<service, appVars, stopped, userId, starts>>
    /\ UNCHANGED audioVars

\* AuthService.storeTokens(): a login stored the tokens of the user.
storeTokens ==
    /\ authTokens = 0
    /\ authTokens' = 1
    /\ loggedOut' = [c \in StartCallers |-> FALSE]
    /\ UNCHANGED <<storedUserId, uiVars>>
    /\ UNCHANGED <<service, userId, timer, isRunning, timers, timerSeq, spc,
                   sret, starts, collections, stopped>>
    /\ UNCHANGED audioVars

\* AuthService.logout(): the stored tokens are removed.  The services
\* are not told.
logout ==
    /\ authTokens # 0
    /\ authTokens' = 0
    /\ storedUserId' = 0
    /\ UNCHANGED <<loggedOut, uiVars>>
    /\ UNCHANGED <<service, userId, timer, isRunning, timers, timerSeq, spc,
                   sret, starts, collections, stopped>>
    /\ UNCHANGED audioVars

\* stop(): clear the interval the timer field names, reset the fields.
stop ==
    /\ timers' = timers \ {timer}
    /\ timer' = 0
    /\ isRunning' = FALSE
    /\ stopped' = TRUE
    /\ UNCHANGED <<service, appVars, userId, timerSeq, spc, sret, starts, collections>>
    /\ UNCHANGED audioVars

\* The interval timer t fires: its callback calls collectAndSendData().
Tick(t) ==
    /\ t \in timers
    /\ Len(collections) < MaxCollections
    /\ UNCHANGED <<service, appVars, stopped, userId, timer, isRunning, timers,
                   timerSeq, spc, sret, starts>>
    /\ collections' = Append(collections, collectAndSendData("interval"))
    /\ UNCHANGED audioVars

\* getTemperature() settles: a reading or, after any failure, a simulated
\* value; it never throws.
collectAndSendData_getTemperature(i) ==
    /\ CollectionStep(i, "getTemperature")
    /\ collections' = [collections EXCEPT ![i].pc = "getLoudness"]

\* getLoudness() settles in the same way; sendDataToBackend() is called.
collectAndSendData_getLoudness(i) ==
    /\ CollectionStep(i, "getLoudness")
    /\ collections' = [collections EXCEPT ![i] = sendDataToBackend(@)]

\* The fetch handlers without clearTimeout(): the timeout stays armed.
fetch_settles_keepsTimeout(i, outcome) ==
    /\ CollectionStep(i, "send")
    /\ collections[i].fetch = "pending"
    /\ ~collections[i].aborted
    /\ collections' = [collections EXCEPT
          ![i].fetch = "settled",
          ![i].promise = IF @ = "pending" THEN outcome ELSE @]

\* fetch() settles before the timeout: with a response (2xx or not) or
\* with a network error.  The handlers clear the timeout and settle the
\* promise.
fetch_settles(i, outcome) ==
    /\ CollectionStep(i, "send")
    /\ collections[i].fetch = "pending"
    /\ ~collections[i].aborted
    /\ collections' = [collections EXCEPT
          ![i].fetch = "settled",
          ![i].timeout = IF @ = "armed" THEN "cleared" ELSE @,
          ![i].promise = IF @ = "pending" THEN outcome ELSE @]

\* The timeout elapses first: abort the request, reject the promise.
fetch_timeout(i) ==
    /\ i \in 1..Len(collections)
    /\ collections[i].timeout = "armed"
    /\ collections' = [collections EXCEPT
          ![i].timeout = "fired",
          ![i].aborted = TRUE,
          ![i].promise = IF @ = "pending" THEN "timedOut" ELSE @]
    /\ UNCHANGED <<service, appVars, stopped, userId, timer, isRunning, timers,
                   timerSeq, spc, sret, starts>>
    /\ UNCHANGED audioVars

\* The aborted fetch() rejects: its handler finds the promise settled.
fetch_aborted(i) ==
    /\ i \in 1..Len(collections)
    /\ collections[i].fetch = "pending"
    /\ collections[i].aborted
    /\ collections' = [collections EXCEPT
          ![i].fetch = "settled",
          ![i].timeout = IF @ = "armed" THEN "cleared" ELSE @,
          ![i].promise = IF @ = "pending" THEN "networkError" ELSE @]
    /\ UNCHANGED <<service, appVars, stopped, userId, timer, isRunning, timers,
                   timerSeq, spc, sret, starts>>
    /\ UNCHANGED audioVars

\* A circuit breaker instead of the catch block: a failed request stops
\* the service.
sendDataToBackend_fetched_stopsService(i) ==
    /\ i \in 1..Len(collections)
    /\ collections[i].pc = "send"
    /\ collections[i].promise # "pending"
    /\ collections' = [collections EXCEPT
          ![i] = CASE @.promise = "ok" -> [@ EXCEPT !.pc = "json"]
                   [] @.promise = "notOk" -> [@ EXCEPT !.pc = "text"]
                   [] OTHER -> Finished(@, "failed")]
    /\ IF collections[i].promise \in {"ok", "notOk"}
       THEN UNCHANGED <<timer, isRunning, timers>>
       ELSE /\ timers' = timers \ {timer}
            /\ timer' = 0
            /\ isRunning' = FALSE
    /\ UNCHANGED <<service, appVars, stopped, userId, timerSeq, spc, sret, starts>>
    /\ UNCHANGED audioVars

\* `await this.fetchWithTimeout(...)` settles in sendDataToBackend(): a
\* rejection is caught and logged, a response is read.
sendDataToBackend_fetched(i) ==
    /\ CollectionStep(i, "send")
    /\ collections[i].promise # "pending"
    /\ collections' = [collections EXCEPT
          ![i] = CASE @.promise = "ok" -> [@ EXCEPT !.pc = "json"]
                   [] @.promise = "notOk" -> [@ EXCEPT !.pc = "text"]
                   [] OTHER -> Finished(@, "failed")]

\* response.text() settles for a non-2xx response; the error thrown next
\* is caught by the catch block of sendDataToBackend().
sendDataToBackend_text(i) ==
    /\ CollectionStep(i, "text")
    /\ collections' = [collections EXCEPT ![i] = Finished(@, "failed")]

\* response.json() settles; a body that does not parse is ignored.
sendDataToBackend_json(i) ==
    /\ CollectionStep(i, "json")
    /\ collections' = [collections EXCEPT ![i] = Finished(@, "sent")]

Collect(i) ==
    \/ collectAndSendData_getTemperature(i)
    \/ collectAndSendData_getLoudness(i)
    \/ \E outcome \in {"ok", "notOk", "networkError"} : fetch_settles(i, outcome)
    \/ fetch_timeout(i)
    \/ fetch_aborted(i)
    \/ sendDataToBackend_fetched(i)
    \/ sendDataToBackend_text(i)
    \/ sendDataToBackend_json(i)

\* Components call start() and stop() on one of the two services, the
\* interval fires, the backend answers or does not.  The user stays
\* logged in.
NextSampling ==
    \/ \E c \in StartCallers : start(c)
    \/ \E c \in StartCallers, tokens \in {"user", "noId", "none", "throws"} :
          start_getUserId(c, tokens)
    \/ \E c \in StartCallers : start_requestPermissions(c)
    \/ stop
    \/ \E t \in 1..MaxStarts : Tick(t)
    \/ \E i \in 1..MaxCollections : Collect(i)

InitSampling ==
    smInit /\ aiInit /\ faInit /\ esInit /\ envInit /\ arInit /\ loginInit /\ platformOS = "ios"
           /\ moduleOk /\ service \in {"fallback", "native"}
           /\ authTokens = 1

SpecSampling == InitSampling /\ [][NextSampling]_vars

\* ------------------------------------------------------------------
\* useEnvironmentalData: a component starts and stops the two services
\* through the hook.  Each service is reduced to what the hook can see of
\* it: start() resolves false when getUserId() left no user id, and
\* otherwise leaves the interval set and resolves true; stop() clears the
\* interval.

envFrame ==
    /\ UNCHANGED <<guardVars, loginVars>>
    /\ UNCHANGED <<service, authVars, userId, timer, isRunning, timers,
                   timerSeq, spc, sret, starts, collections, stopped>>
    /\ UNCHANGED audioVars

\* startService() up to its first await, as the render that created the
\* closure saw useFallback.
startService ==
    /\ envPc' = IF useFallback THEN "FallbackEnvironmentalService.start"
                ELSE "EnvironmentalDataService.start"

\* The effect's cleanup: it stops both services if the isRunning it closed
\* over is true.
cleanup ==
    IF cleanupIsRunning
    THEN serviceRunning' = [s \in Services |-> FALSE]
    ELSE UNCHANGED serviceRunning

\* First render and effect of a component that uses the hook.
useEnvironmentalData_mount(a) ==
    /\ envScreen = "none"
    /\ envScreen' = "mounted"
    /\ autoStart' = a
    /\ cleanupIsRunning' = envIsRunning
    /\ IF a THEN startService ELSE UNCHANGED envPc
    /\ UNCHANGED <<envIsRunning, useFallback, envStarts, envChanges,
                   serviceRunning, serviceUserId>>
    /\ envFrame

\* A render with another autoStart: the cleanup of the last effect runs,
\* then the effect again, with the isRunning of this render.
useEnvironmentalData_autoStart(a) ==
    /\ envScreen = "mounted"
    /\ a # autoStart
    /\ envChanges < MaxAutoStartChanges
    /\ a => envPc = "idle"
    /\ envChanges' = envChanges + 1
    /\ autoStart' = a
    /\ cleanup
    /\ cleanupIsRunning' = envIsRunning
    /\ IF a THEN startService ELSE UNCHANGED envPc
    /\ UNCHANGED <<envScreen, envIsRunning, useFallback, envStarts,
                   serviceUserId>>
    /\ envFrame

\* The component calls the startService() the hook returned.
useEnvironmentalData_startService ==
    /\ envScreen = "mounted"
    /\ envPc = "idle"
    /\ envStarts < MaxServiceStarts
    /\ envStarts' = envStarts + 1
    /\ startService
    /\ UNCHANGED <<envScreen, autoStart, envIsRunning, useFallback,
                   cleanupIsRunning, envChanges, serviceRunning,
                   serviceUserId>>
    /\ envFrame

\* A service's start() settles; found: its getUserId() read a user id.
\* The state setters of an unmounted component do nothing.
startService_started(found) ==
    LET s       == envPc
        svc     == IF s = "EnvironmentalDataService.start"
                   THEN "EnvironmentalDataService"
                   ELSE "FallbackEnvironmentalService"
        uid     == serviceUserId[svc] \/ found
        started == uid
        set(v, x) == IF envScreen = "mounted" THEN x ELSE v
    IN  /\ envPc # "idle"
        /\ serviceUserId' = [serviceUserId EXCEPT ![svc] = uid]
        /\ serviceRunning' = [serviceRunning EXCEPT ![svc] = @ \/ started]
        /\ IF svc = "EnvironmentalDataService"
           THEN IF started
                THEN /\ envIsRunning' = set(envIsRunning, TRUE)
                     /\ envPc' = "idle"
                     /\ UNCHANGED useFallback
                ELSE /\ useFallback' = set(useFallback, TRUE)
                     /\ envPc' = "FallbackEnvironmentalService.start"
                     /\ UNCHANGED envIsRunning
           ELSE /\ envIsRunning' = set(envIsRunning, started)
                /\ envPc' = "idle"
                /\ UNCHANGED useFallback
        /\ UNCHANGED <<envScreen, autoStart, cleanupIsRunning, envStarts,
                       envChanges>>
        /\ envFrame

\* The component calls stopService(): the service useFallback names.
stopService ==
    /\ envScreen = "mounted"
    /\ LET svc == IF useFallback THEN "FallbackEnvironmentalService"
                  ELSE "EnvironmentalDataService"
       IN  serviceRunning' = [serviceRunning EXCEPT ![svc] = FALSE]
    /\ envIsRunning' = FALSE
    /\ UNCHANGED <<envScreen, autoStart, useFallback, cleanupIsRunning, envPc,
                   envStarts, envChanges, serviceUserId>>
    /\ envFrame

\* The component unmounts: the cleanup of the last effect runs.
useEnvironmentalData_unmount ==
    /\ envScreen = "mounted"
    /\ envScreen' = "unmounted"
    /\ cleanup
    /\ UNCHANGED <<autoStart, envIsRunning, useFallback, cleanupIsRunning,
                   envPc, envStarts, envChanges, serviceUserId>>
    /\ envFrame

NextEnv ==
    \/ \E a \in BOOLEAN : useEnvironmentalData_mount(a)
    \/ \E a \in BOOLEAN : useEnvironmentalData_autoStart(a)
    \/ useEnvironmentalData_startService
    \/ \E found \in BOOLEAN : startService_started(found)
    \/ stopService
    \/ useEnvironmentalData_unmount

InitEnv ==
    smInit /\ aiInit /\ faInit /\ esInit /\ envInit /\ arInit /\ loginInit /\ platformOS = "ios"
           /\ moduleOk /\ service = "fallback" /\ authTokens = 1

SpecEnv == InitEnv /\ [][NextEnv]_vars

\* ------------------------------------------------------------------
\* AuthRequired: a screen that shows its children to a logged-in user.

arFrame ==
    /\ UNCHANGED <<loggedOut, envVars, loginVars>>
    /\ UNCHANGED <<service, userId, timer, isRunning, timers, timerSeq, spc,
                   sret, starts, collections, stopped>>
    /\ UNCHANGED audioVars

\* What AuthRequired returns at a render.
AuthRequired ==
    IF arScreen # "mounted" THEN "nothing"
    ELSE IF isLoading THEN "loading"
    ELSE IF ~isAuthenticated /\ fallback THEN "fallback"
    ELSE "children"

\* A React state setter: nothing happens once the screen is gone.
setState(v, x) == IF arScreen = "mounted" THEN x ELSE v

\* checkAuthentication() returns: `finally` has set isLoading to false.
checkAuthentication_ends(how) ==
    /\ arPc' = "done"
    /\ arEnded' = how
    /\ isLoading' = setState(isLoading, FALSE)

\* First render and effect: checkAuthentication() runs up to
\* `await AuthService.isAuthenticated()`.
AuthRequired_mount(fb) ==
    /\ arScreen = "none"
    /\ arScreen' = "mounted"
    /\ fallback' = fb
    /\ arPc' = "isAuthenticated"
    /\ arChecks' = 1
    /\ UNCHANGED <<isLoading, isAuthenticated, arEnded, route, authTokens, storedUserId>>
    /\ arFrame

\* A render with another router object: the effect runs again.
AuthRequired_router ==
    /\ arScreen = "mounted"
    /\ arPc = "done"
    /\ arChecks < MaxChecks
    /\ arChecks' = arChecks + 1
    /\ arPc' = "isAuthenticated"
    /\ UNCHANGED <<arScreen, fallback, isLoading, isAuthenticated, arEnded,
                   route, authTokens, storedUserId>>
    /\ arFrame

\* isAuthenticated() settles: whether tokens are stored, or the storage
\* read throws.  Without tokens the user is sent to the login route; the
\* isAuthenticated state is not touched.
checkAuthentication_isAuthenticated(r) ==
    /\ arPc = "isAuthenticated"
    /\ IF r = "throws"
       THEN /\ isAuthenticated' = setState(isAuthenticated, FALSE)
            /\ route' = "login"
            /\ checkAuthentication_ends("exception")
       ELSE IF authTokens # 0
            THEN /\ arPc' = "checkAuth"
                 /\ UNCHANGED <<isAuthenticated, route, isLoading, arEnded>>
            ELSE /\ route' = "login"
                 /\ checkAuthentication_ends("missingToken")
                 /\ UNCHANGED isAuthenticated
    /\ UNCHANGED <<arScreen, fallback, arChecks, authTokens, storedUserId>>
    /\ arFrame

\* checkAuth() settles: true when tokens are stored and the server
\* answered ok, false otherwise (it catches every exception).
checkAuthentication_checkAuth(response) ==
    LET isValid == authTokens # 0 /\ response = "ok"
    IN  /\ arPc = "checkAuth"
        /\ isAuthenticated' = setState(isAuthenticated, isValid)
        /\ IF isValid
           THEN checkAuthentication_ends("valid")
           ELSE /\ arPc' = "logout"
                /\ UNCHANGED <<isLoading, arEnded>>
        /\ UNCHANGED <<arScreen, fallback, arChecks, route, authTokens, storedUserId>>
        /\ arFrame

\* `await AuthService.logout()` settles: the tokens are removed, or the
\* removal throws and the catch block runs.
checkAuthentication_logout(r) ==
    /\ arPc = "logout"
    /\ route' = "login"
    /\ IF r = "throws"
       THEN /\ isAuthenticated' = setState(isAuthenticated, FALSE)
            /\ checkAuthentication_ends("exception")
            /\ UNCHANGED <<authTokens, storedUserId>>
       ELSE /\ authTokens' = 0
            /\ storedUserId' = 0
            /\ checkAuthentication_ends("invalidToken")
            /\ UNCHANGED isAuthenticated
    /\ UNCHANGED <<arScreen, fallback, arChecks>>
    /\ arFrame

\* The navigator removes the screen.
AuthRequired_unmount ==
    /\ arScreen = "mounted"
    /\ arScreen' = "unmounted"
    /\ UNCHANGED <<fallback, isLoading, isAuthenticated, arPc, arEnded,
                   arChecks, route, authTokens, storedUserId>>
    /\ arFrame

NextGuard ==
    \/ \E fb \in BOOLEAN : AuthRequired_mount(fb)
    \/ AuthRequired_router
    \/ \E r \in {"value", "throws"} : checkAuthentication_isAuthenticated(r)
    \/ \E response \in {"ok", "notOk", "networkError"} :
          checkAuthentication_checkAuth(response)
    \/ \E r \in {"done", "throws"} : checkAuthentication_logout(r)
    \/ AuthRequired_unmount
    \/ storeTokens
    \/ logout

InitGuard ==
    smInit /\ aiInit /\ faInit /\ esInit /\ envInit /\ arInit /\ loginInit /\ platformOS = "ios"
           /\ moduleOk /\ service = "fallback" /\ authTokens \in {0, 1}

SpecGuard == InitGuard /\ [][NextGuard]_vars

\* ------------------------------------------------------------------
\* AuthService.login(): one action per await of login() and of the
\* storeCurrentUserId() it calls.  A rejection leaves the storage as the
\* steps before it left it.

loginFrame ==
    /\ UNCHANGED <<loggedOut, envVars, guardVars>>
    /\ UNCHANGED <<service, userId, timer, isRunning, timers, timerSeq, spc,
                   sret, starts, collections, stopped>>
    /\ UNCHANGED audioVars

\* isAuthenticated(): whether tokens are stored.
AuthService_isAuthenticated == authTokens # 0

\* One step of login(): from one await to the next, or to its settling.
LoginStep(from, to) ==
    /\ loginPc = from
    /\ loginPc' = to
    /\ UNCHANGED <<loginFrom, logins>>
    /\ loginFrame

\* login() up to `await fetch(.../api/token/)`.
login ==
    /\ loginPc \in {"idle", "resolved", "rejected"}
    /\ logins < MaxLogins
    /\ logins' = logins + 1
    /\ loginFrom' = authTokens
    /\ loginPc' = "fetch"
    /\ UNCHANGED <<authTokens, storedUserId>>
    /\ loginFrame

\* The token request settles: the fetch rejects, or a response arrives.
login_fetched(response) ==
    /\ LoginStep("fetch", CASE response = "ok" -> "tokens"
                            [] response = "notOk" -> "errorData"
                            [] OTHER -> "rejected")
    /\ UNCHANGED <<authTokens, storedUserId>>

\* `await response.json()` of a refusal settles; login() throws either way.
login_errorData ==
    /\ LoginStep("errorData", "rejected")
    /\ UNCHANGED <<authTokens, storedUserId>>

\* `await response.json()` of the tokens settles.
login_tokens(parsed) ==
    /\ LoginStep("tokens", IF parsed THEN "storeTokens" ELSE "rejected")
    /\ UNCHANGED <<authTokens, storedUserId>>

\* `await this.storeTokens(tokens)` settles; storeCurrentUserId() then
\* runs up to `await this.getTokens()` in getAuthenticatedRequest().
login_storeTokens(stored) ==
    /\ LoginStep("storeTokens", IF stored THEN "getTokens" ELSE "rejected")
    /\ authTokens' = IF stored THEN 1 ELSE authTokens
    /\ UNCHANGED storedUserId

\* getTokens() settles: without tokens getAuthenticatedRequest() throws.
storeCurrentUserId_getTokens ==
    /\ LoginStep("getTokens", IF authTokens # 0 THEN "users" ELSE "rejected")
    /\ UNCHANGED <<authTokens, storedUserId>>

\* The /users request settles: anything but an ok response throws.
storeCurrentUserId_fetched(response) ==
    /\ LoginStep("users", IF response = "ok" THEN "user" ELSE "rejected")
    /\ UNCHANGED <<authTokens, storedUserId>>

\* `await usersResponse.json()` settles: a body without an id throws.
storeCurrentUserId_user(body) ==
    /\ LoginStep("user", IF body = "id" THEN "setItem" ELSE "rejected")
    /\ UNCHANGED <<authTokens, storedUserId>>

\* `await AsyncStorage.setItem('user_id', ...)` settles; login() returns.
storeCurrentUserId_setItem(stored) ==
    /\ LoginStep("setItem", IF stored THEN "resolved" ELSE "rejected")
    /\ storedUserId' = IF stored THEN 1 ELSE storedUserId
    /\ UNCHANGED authTokens

NextLogin ==
    \/ login
    \/ \E response \in {"ok", "notOk", "networkError"} : login_fetched(response)
    \/ login_errorData
    \/ \E parsed \in BOOLEAN : login_tokens(parsed)
    \/ \E stored \in BOOLEAN : login_storeTokens(stored)
    \/ storeCurrentUserId_getTokens
    \/ \E response \in {"ok", "notOk", "networkError"} :
          storeCurrentUserId_fetched(response)
    \/ \E body \in {"id", "noId", "throws"} : storeCurrentUserId_user(body)
    \/ \E stored \in BOOLEAN : storeCurrentUserId_setItem(stored)
    \/ logout

InitLogin ==
    smInit /\ aiInit /\ faInit /\ esInit /\ envInit /\ arInit /\ loginInit
           /\ platformOS = "ios" /\ moduleOk /\ service = "fallback"
           /\ authTokens = 0

SpecLogin == InitLogin /\ [][NextLogin]_vars

\* The same, with the user logging in and out while the services run.
NextSession ==
    \/ NextSampling
    \/ storeTokens
    \/ logout

InitSession ==
    smInit /\ aiInit /\ faInit /\ esInit /\ envInit /\ arInit /\ loginInit /\ platformOS = "ios"
           /\ moduleOk /\ service \in {"fallback", "native"}
           /\ authTokens = 0

SpecSession == InitSession /\ [][NextSession]_vars

\* ================================================================ claims
\* The handle the map holds for id, as getPlaybackStatus reads it.
IsPlaying(id) == Has(sounds, id) /\ native[Get(sounds, id)].isPlaying

\* The ids whose loaded sound is natively playing.
PlayingIds == {id \in SoundIds : IsPlaying(id)}

\* C1: after any sequence of awaited Session Manager operations, native
\* calls being allowed to fail, at most one loaded sound is natively playing
\* and a playing sound is the one named by currentlyPlaying.
C1_OnePlayingAndCurrent ==
    Idle("s1") =>
        /\ Cardinality(PlayingIds) <= 1
        /\ \A id \in PlayingIds : currentlyPlaying = id

\* C2: for A # B, after an awaited playSound(A) and then an awaited
\* playSound(B), getPlaybackStatus(A).isPlaying is false and at most B is
\* playing, whatever playSound(B) returned.
C2_PreviousSoundStopped ==
    \A p \in Callers :
        (/\ Idle(p)
         /\ op[p] = "playSound"
         /\ prevPlayed[p] # Null
         /\ prevPlayed[p] # arg[p])
        => /\ ~IsPlaying(prevPlayed[p])
           /\ PlayingIds \subseteq {arg[p]}

\* A step in which caller p's playSound resolves after an await.
PlaySoundResumes(p) ==
    \/ \E ok \in BOOLEAN : playSound_stopAsync(p, ok)
    \/ \E ok \in BOOLEAN : playSound_getStatusAsync(p, ok)
    \/ \E ok \in BOOLEAN : playSound_setPositionAsync(p, ok)
    \/ \E ok \in BOOLEAN : playSound_setIsLoopingAsync(p, ok)
    \/ \E ok \in BOOLEAN : playSound_playAsync(p, ok)

\* C3: when two callers race playSound on different loaded ids, then once
\* both have resolved at most one of the two sounds is natively playing and
\* currentlyPlaying names the sound of the caller that completed last.
C3_RaceKeepsOnePlaying ==
    [][\A p, q \in Callers :
        (/\ p # q
         /\ PlaySoundResumes(p)
         /\ Idle(p)'
         /\ Idle(q) /\ op[q] = "playSound"
         /\ raced[p] /\ raced[q]
         /\ arg[p] # arg[q]
         /\ Has(sounds, arg[p]) /\ Has(sounds, arg[q]))
        => /\ Cardinality(PlayingIds' \cap {arg[p], arg[q]}) <= 1
           /\ ret'[p] = "true" => currentlyPlaying' = arg[p]]_vars

\* C4: toggle law: for a loaded id A that playSound(A) made the playing
\* one, a second playSound(A) issues a native stop on A, returns false and
\* leaves A not playing with currentlyPlaying null.
C4_ToggleLaw ==
    [][\A p \in Callers :
        /\ ((\E id \in SoundIds, loop \in BOOLEAN : playSound(p, id, loop))
              /\ op[p] = "playSound" /\ arg[p] = arg'[p]
              /\ currentlyPlaying = arg[p] /\ Has(sounds, arg[p]) /\ isAvailable)
           => pc'[p] = "playSound_toggle"
        /\ ((\E ok \in BOOLEAN : playSound_toggle(p, ok))
              /\ prevPlayed[p] = arg[p])
           => /\ ret'[p] = "false"
              /\ ~IsPlaying(arg[p])'
              /\ currentlyPlaying' = Null]_vars

\* C6: whenever an initializeAudio() attempt resolves false the memo is
\* cleared, so that the next call starts a fresh attempt.
C6_FailureClearsMemo ==
    \A k \in 1..Len(attempts) :
        attempts[k].result = "false" => initializationPromise # k

\* C8: a playSound(id) that returns false because a step failed leaves the
\* playing id, the handle map and what plays natively as they were, and
\* never leaves currentlyPlaying equal to id.
C8_FailedPlayChangesNothing ==
    [][\A p \in Callers :
        (/\ \/ PlaySoundResumes(p)
            \/ /\ \E id \in SoundIds, loop \in BOOLEAN : playSound(p, id, loop)
               /\ currentlyPlaying # arg'[p]
         /\ Idle(p)'
         /\ ret'[p] = "false")
        => /\ ~changed'[p]
           /\ currentlyPlaying' # arg'[p]]_vars

\* C9: pauseSound(id) and stopSound(id) called with id the playing id and
\* the bridge available leave currentlyPlaying null when they resolve, also
\* when the native pause or stop threw.
C9_PauseStopClearPlayingId ==
    [][\A p \in Callers :
        (/\ \/ \E id \in SoundIds : pauseSound(p, id) \/ stopSound(p, id)
            \/ \E ok \in BOOLEAN : pauseSound_pauseAsync(p, ok)
            \/ \E ok \in BOOLEAN : stopSound_stopAsync(p, ok)
         /\ Idle(p)'
         /\ isAvailable
         /\ currentlyPlaying = arg'[p])
        => currentlyPlaying' = Null]_vars

\* C10: the handle map holds at most one handle per id, and every native
\* handle loadSound created that is no longer in the map has been released.
C10_NoHandleLeak ==
    /\ \A i, j \in 1..Len(sounds) : sounds[i].id = sounds[j].id => i = j
    /\ \A h \in 1..Len(native) : native[h].isLoaded => h \in Handles(sounds)

\* C11: loadSound(id, null) returns false at once, makes no native load and
\* leaves the handle map as it was (no entry is created for id, an existing
\* entry for id stays); getPlaybackStatus(id) returns null at once, without
\* a native call, for every id that has no entry in the handle map.
C11_NullSafety ==
    [][\A p \in Callers :
        /\ (\E id \in SoundIds : loadSound(p, id, FALSE))
           => /\ Idle(p)'
              /\ ret'[p] = "false"
              /\ native' = native
              /\ sounds' = sounds
        /\ \A id \in SoundIds :
              (getPlaybackStatus(p, id) /\ ~Has(sounds, id))
              => /\ Idle(p)'
                 /\ ret'[p] = "null"
                 /\ native' = native]_vars

\* With the bridge available and id loaded, loadSound(id, null) returned
\* false and the entry of id is still in the map, its handle still loaded
\* (a failed native load would have removed the entry).
C11_Witness ==
    /\ Idle("s1")
    /\ op["s1"] = "loadSound"
    /\ ret["s1"] = "false"
    /\ isAvailable
    /\ Has(sounds, arg["s1"])
    /\ native[Get(sounds, arg["s1"])].isLoaded

\* A step in which caller p calls an operation of the manager.
OpCall(p) ==
    \/ \E id \in SoundIds, hasSource \in BOOLEAN : loadSound(p, id, hasSource)
    \/ \E id \in SoundIds, loop \in BOOLEAN : playSound(p, id, loop)
    \/ \E id \in SoundIds : pauseSound(p, id)
    \/ \E id \in SoundIds : stopSound(p, id)
    \/ \E id \in SoundIds : unloadSound(p, id)
    \/ \E id \in SoundIds : getPlaybackStatus(p, id)
    \/ unloadAll(p)

\* The value each operation returns when it fails.
FailureValue(o) ==
    CASE o \in {"loadSound", "playSound"} -> "false"
      [] o = "getPlaybackStatus" -> "null"
      [] OTHER -> "void"

\* C12: an operation called while the availability flag is false returns
\* its failure value (false, null or void) at once: it makes no native
\* call and leaves the handle map, currentlyPlaying and the flag as they
\* were.
C12_UnavailableIsNoOp ==
    [][\A p \in Callers :
        (~isAvailable /\ OpCall(p))
        => /\ Idle(p)'
           /\ ret'[p] = FailureValue(op'[p])
           /\ native' = native
           /\ sounds' = sounds
           /\ currentlyPlaying' = currentlyPlaying
           /\ isAvailable' = isAvailable]_vars

\* The flag went false while a loaded sound was playing, and a pauseSound
\* on that sound returned without pausing it.
C12_Witness ==
    /\ ~isAvailable
    /\ Idle("s1")
    /\ op["s1"] = "pauseSound"
    /\ ret["s1"] = "void"
    /\ currentlyPlaying = arg["s1"]
    /\ IsPlaying(arg["s1"])

\* The values the promise of each operation can resolve to.
ResultsOf(o) ==
    CASE o \in {"loadSound", "playSound"} -> {"true", "false"}
      [] o = "getPlaybackStatus" -> {"null", "isPlaying", "notPlaying"}
      [] OTHER -> {"void"}

\* A step in which a native call awaited by caller p throws.
Throws(p) ==
    \/ loadSound_unloadAsync(p, FALSE)
    \/ loadSound_createAsync(p, FALSE)
    \/ playSound_toggle(p, FALSE)
    \/ playSound_stopAsync(p, FALSE)
    \/ playSound_getStatusAsync(p, FALSE)
    \/ playSound_setPositionAsync(p, FALSE)
    \/ playSound_setIsLoopingAsync(p, FALSE)
    \/ playSound_playAsync(p, FALSE)
    \/ pauseSound_pauseAsync(p, FALSE)
    \/ stopSound_stopAsync(p, FALSE)
    \/ unloadSound_unloadAsync(p, FALSE)
    \/ unloadAll_unloadAsync(p, FALSE)
    \/ getPlaybackStatus_getStatusAsync(p, FALSE)

\* C13: no operation of the manager or of the facade rejects: a promise
\* resolves to a value of the operation's result type, and an operation
\* that ends at a throwing native call resolves to its failure value
\* (false for loadSound and playSound, null for getPlaybackStatus, void for
\* the others; false or void for the facade).
C13_NoOperationRejects ==
    /\ [](\A p \in Callers :
            op[p] # "none" => ret[p] \in ResultsOf(op[p]) \cup {"pending"})
    /\ [](fret \in {"none", "pending", "true", "false", "void"})
    /\ [][\A p \in Callers :
            (Throws(p) /\ Idle(p)') => ret'[p] = FailureValue(op[p])]_vars
    /\ [][(fpc # "idle" /\ fpc' = "idle")
            => fret' \in (IF fpc = "stopSound_stopSound"
                          THEN {"void"} ELSE {"true", "false"})]_vars

\* The facade's playSound resolved false after a native call of the
\* manager's playSound threw: the sound is loaded, no toggle took place
\* and nothing changed.
C13_Witness ==
    /\ fpc = "idle"
    /\ fret = "false"
    /\ Idle(HookCaller)
    /\ op[HookCaller] = "playSound"
    /\ ret[HookCaller] = "false"
    /\ ~changed[HookCaller]
    /\ isAvailable
    /\ Has(sounds, arg[HookCaller])
    /\ native[Get(sounds, arg[HookCaller])].isLoaded

\* C14: when the sound that currentlyPlaying names plays to its end, the
\* observer sets currentlyPlaying to null; the next call, if it is a
\* playSound of that id, never takes the toggle branch, and unless one of
\* its native calls throws it resolves to true with the id playing and
\* current again.
C14_FinishedSoundReplays ==
    /\ [][\A h \in 1..Len(native) :
            (/\ didJustFinish(h)
             /\ currentlyPlaying # Null
             /\ Get(sounds, currentlyPlaying) = h)
            => currentlyPlaying' = Null]_vars
    /\ [](\A p \in Callers :
            (replay /\ op[p] = "playSound") => pc[p] # "playSound_toggle")
    /\ [][\A p \in Callers :
            (replay /\ op[p] = "playSound" /\ ~Idle(p) /\ Idle(p)')
            => IF Throws(p)
               THEN ret'[p] = "false"
               ELSE /\ ret'[p] = "true"
                    /\ currentlyPlaying' = arg[p]
                    /\ IsPlaying(arg[p])']_vars

\* A sound played to its end while it was the playing one, and the
\* playSound that followed started it again and returned true.
C14_Witness ==
    /\ replay
    /\ Idle("s1")
    /\ op["s1"] = "playSound"
    /\ ret["s1"] = "true"
    /\ currentlyPlaying = arg["s1"]
    /\ IsPlaying(arg["s1"])

\* C15: when the manager's playSound(id) took its toggle branch (id was the
\* playing id and was stopped) and so returned false, the facade does not
\* track id as playing once the facade's playSound has resolved.
C15_ToggleIsAStop ==
    [][(/\ fpc = "playSound_playSound"
        /\ fpc' = "idle"
        /\ sawToggle
        /\ ret[HookCaller] = "false")
       => ~(hookAudioReady' /\ playingId' = farg)]_vars

\* C16: when the component unmounts while the hook tracks id as playing,
\* the cleanup calls pauseSound(id); once that call has resolved id is not
\* playing natively and currentlyPlaying is not id, and the call never
\* rejects.
C16_UnmountPausesTracked ==
    /\ [][(SoundsScreen_unmount /\ playingId # Null)
            => /\ op'[CleanupCaller] = "pauseSound"
               /\ arg'[CleanupCaller] = playingId]_vars
    /\ [][(/\ screen' = "unmounted"
            /\ playingId # Null
            /\ op'[CleanupCaller] = "pauseSound"
            /\ arg'[CleanupCaller] = playingId
            /\ ret[CleanupCaller] # "void"
            /\ ret'[CleanupCaller] = "void")
           => /\ ~IsPlaying(playingId)'
              /\ currentlyPlaying' # playingId]_vars
    /\ [](ret[CleanupCaller] \in {"none", "pending", "void"})

\* C17: once the sounds screen has unmounted and the calls it made have
\* resolved, the handle map holds no handle the screen loaded (every handle
\* of this specification was loaded by the screen).
C17_UnmountDestroysHandles ==
    (/\ screen = "unmounted"
     /\ fpc = "idle"
     /\ Idle(HookCaller)
     /\ Idle(CleanupCaller))
    => sounds = <<>>

\* C18: a native call that throws inside an operation of the manager makes
\* the operation recompute isAvailable with checkAvailability() before it
\* returns: after the step that handles the throw the flag is what the
\* probe finds.
C18_ThrowReprobes ==
    [][\A p \in Callers :
         Throws(p) => isAvailable' = checkAvailability']_vars

\* C19: in every reachable state currentlyPlaying is null or an id the
\* handle map holds.
C19_PlayingIdIsLoaded ==
    currentlyPlaying = Null \/ Has(sounds, currentlyPlaying)

\* C20: a collectAndSendData() run that fails (network error, timeout or
\* non-2xx response) leaves the interval timer and isRunning as they were
\* and ends without an exception, and every interval that is still set
\* can fire again and then calls collectAndSendData() anew.
C20_FailureKeepsSampling ==
    /\ [][\A i \in 1..Len(collections) :
            (collections[i].result = "pending" /\ collections'[i].result = "failed")
            => UNCHANGED <<timer, timers, isRunning>>]_vars
    /\ [](\A i \in 1..Len(collections) :
            collections[i].result \in {"pending", "sent", "failed", "skipped"})
    /\ [](\A t \in timers :
            (/\ \E i \in 1..Len(collections) : collections[i].result = "failed"
             /\ Len(collections) < MaxCollections)
            => ENABLED Tick(t))
    /\ [][\A t \in timers :
            Tick(t) => /\ Len(collections') = Len(collections) + 1
                       /\ collections'[Len(collections')].by = "interval"
                       /\ collections'[Len(collections')].result = "pending"]_vars

\* A run failed, the service kept running, and the run the interval
\* started afterwards delivered its data.
C20_Witness ==
    /\ isRunning
    /\ timer \in timers
    /\ \E i, j \in 1..Len(collections) :
          /\ i < j
          /\ collections[i].result = "failed"
          /\ collections[j].by = "interval"
          /\ collections[j].sawFailed
          /\ collections[j].result = "sent"

\* C21: the promise of fetchWithTimeout() settles once and keeps its
\* value.  A timeout that elapses while fetch() is pending aborts the
\* request and rejects the promise as timed out; a fetch() that settles
\* first gives the promise its outcome and clears the timeout, and no
\* abort is issued after that.
C21_SettlesOnce ==
    /\ [][\A i \in 1..Len(collections) :
            collections[i].promise \notin {"none", "pending"}
            => collections'[i].promise = collections[i].promise]_vars
    /\ [][\A i \in 1..Len(collections) :
            (/\ collections[i].timeout = "armed"
             /\ collections'[i].timeout = "fired"
             /\ collections[i].fetch = "pending")
            => /\ collections'[i].aborted
               /\ collections'[i].promise = "timedOut"]_vars
    /\ [][\A i \in 1..Len(collections) :
            (/\ collections[i].fetch = "pending"
             /\ collections'[i].fetch = "settled"
             /\ ~collections[i].aborted)
            => /\ collections'[i].promise \in {"ok", "notOk", "networkError"}
               /\ collections'[i].timeout = "cleared"]_vars
    /\ [](\A i \in 1..Len(collections) :
            collections[i].promise \in {"ok", "notOk", "networkError"}
            => /\ ~collections[i].aborted
               /\ collections[i].timeout = "cleared")
    /\ [](\A i \in 1..Len(collections) :
            collections[i].promise = "timedOut"
            => /\ collections[i].aborted
               /\ collections[i].timeout = "fired")

\* One request timed out and its aborted fetch() rejected afterwards
\* without changing the promise; another got its response in time.
C21_Witness ==
    \E i, j \in 1..Len(collections) :
       /\ collections[i].promise = "timedOut"
       /\ collections[i].fetch = "settled"
       /\ collections[j].promise = "ok"
       /\ collections[j].timeout = "cleared"
       /\ ~collections[j].aborted

\* C22: while the screen is on display and no operation of the facade or
\* of the manager is pending, the facade reports id as playing only if
\* currentlyPlaying is id.
C22_FacadeTracksManager ==
    (/\ screen = "mounted"
     /\ fpc = "idle"
     /\ Idle(HookCaller)
     /\ Idle(CleanupCaller))
    => \A id \in SoundIds : useAudio_isPlaying(id) => currentlyPlaying = id

\* C23: the facade's loadSound(id, source) resolves to true only if the
\* manager's map holds a handle for id when it resolves.
C23_LoadedMeansRegistered ==
    [][(/\ fpc = "loadSound_loadSound"
        /\ fpc' = "idle"
        /\ fret' = "true")
       => Has(sounds', farg)]_vars

\* C24: the natural end of the sound the map holds for id x changes
\* currentlyPlaying only if currentlyPlaying is x; it never clears the
\* playing id of a different sound.
C24_FinishClearsOwnIdOnly ==
    [][\A x \in SoundIds :
         (Has(sounds, x) /\ didJustFinish(Get(sounds, x)))
         => \/ currentlyPlaying' = currentlyPlaying
            \/ currentlyPlaying = x]_vars

\* C25: whatever start() and stop() calls were made and however they
\* overlapped, at most one interval timer is set, it is the one the timer
\* field names, and isRunning is true exactly when a timer is set.
C25_OneTimer ==
    /\ Cardinality(timers) <= 1
    /\ timers = IF timer = 0 THEN {} ELSE {timer}
    /\ isRunning <=> timers # {}

\* Two start() calls returned true, a stop() came between them, and the
\* second interval is the only one that is set.
C25_Witness ==
    /\ \A c \in StartCallers : spc[c] = "idle" /\ sret[c] = "true"
    /\ timerSeq = 2
    /\ timers = {2}
    /\ isRunning

\* C26: once stop() has returned, and as long as start() is not called
\* again, no interval timer is set, isRunning is false, no collection is
\* started and no request is sent.
C26_StoppedStaysStopped ==
    /\ [](stopped => (timers = {} /\ ~isRunning))
    /\ [][(stopped /\ stopped')
            => /\ Len(collections') = Len(collections)
               /\ \A i \in 1..Len(collections) :
                     collections'[i].fetch = "pending"
                     => collections[i].fetch = "pending"]_vars

\* C27: a start() called while no auth tokens are stored, and none stored
\* before its token lookup settles, returns false and sets no interval
\* (also when an earlier start() succeeded for a user who logged out
\* since); and a request is only sent while tokens are stored, with the
\* user id of the stored tokens.
C27_NoTokensNoSampling ==
    /\ [][\A c \in StartCallers :
            (spc[c] = "getUserId" /\ spc'[c] # "getUserId" /\ loggedOut[c])
                => /\ spc'[c] = "idle"
                   /\ sret'[c] = "false"
                   /\ timers' = timers
                   /\ timer' = timer]_vars
    /\ [][\A i \in 1..Len(collections') :
            (/\ collections'[i].fetch = "pending"
             /\ (i > Len(collections) \/ collections[i].fetch # "pending"))
                => (authTokens # 0 /\ userId' = authTokens)]_vars

\* C28: when a component whose startService() succeeded (its isRunning
\* is true, no startService() call is in flight) unmounts, neither
\* service has its interval set after the unmount.
C28_UnmountStopsServices ==
    [][(useEnvironmentalData_unmount /\ envIsRunning /\ envPc = "idle")
          => \A s \in Services : ~serviceRunning'[s]]_vars

\* C29: once the authentication check of a displayed AuthRequired has
\* ended with a missing token, an invalid token or an exception, the
\* component does not render its children, with or without a fallback.
C29_ChildrenOnlyWhenConfirmed ==
    (/\ arScreen = "mounted"
     /\ arPc = "done"
     /\ arEnded \in {"missingToken", "invalidToken", "exception"})
        => AuthRequired # "children"

\* C30: when a login() that was called in a logged-out state rejects, no
\* auth tokens are stored and isAuthenticated() is false.
C30_FailedLoginStoresNothing ==
    [][(loginPc # "rejected" /\ loginPc' = "rejected" /\ loginFrom = 0)
          => (authTokens' = 0 /\ ~AuthService_isAuthenticated')]_vars

\* C5: callers that call initializeAudio() while an attempt is pending all
\* await that attempt's promise, so they receive the same outcome, and no
\* second native setup (probe, audio-mode configuration) is started.
C5_ConcurrentCallsShareOneAttempt ==
    /\ \A c \in InitCallers :
          (cpc[c] # "idle" /\ sawInFlight[c] # 0) => joined[c] = sawInFlight[c]
    /\ \A c, d \in InitCallers :
          (/\ cpc[c] = "resolved" /\ cpc[d] = "resolved"
           /\ joined[c] # 0 /\ joined[c] = joined[d])
          => got[c] = got[d]
    /\ Cardinality({k \in 1..Len(attempts) : Pending(k)}) <= 1
    /\ probeCalls <= Len(attempts)
    /\ configCalls <= Len(attempts)

\* Three callers called before the first call resolved, and all three got
\* true from a single probe and a single configuration.
C5_Witness ==
    /\ \A c \in InitCallers : cpc[c] = "resolved" /\ joined[c] = 1 /\ got[c] = "true"
    /\ Cardinality({c \in InitCallers : sawInFlight[c] = 1}) = NumInitCallers - 1
    /\ probeCalls = 1
    /\ configCalls = 1

====
